---- MODULE Spec2Model ----
(***************************************************************************)
(* Model of the flow-state-tax-monitor collection and aggregation engine:  *)
(*   - HRVCollector (backend/hrv_collector.py) with its adapter chain      *)
(*     (backend/hrv_adapters.py), checked under SpecFetch;                 *)
(*   - DataAggregator (backend/data_collector_orchestrator.py) with its    *)
(*     per-kind locks, statement by statement, checked under SpecAgg;      *)
(*   - the collector loops of DataCollectorOrchestrator, checked under     *)
(*     Spec.                                                               *)
(* Times are whole seconds; HRV values are whole milliseconds.             *)
(***************************************************************************)
EXTENDS Integers, Sequences, FiniteSets, TLC

VARIABLES
    \* ---- HRVCollector ----
    sources,          \* self.sources: source names in priority order
    adapters,         \* self.adapters: the adapter objects
    api_source,       \* self.api_source
    cached_hrv,       \* self.cached_hrv (Optional)
    cache_timestamp,  \* self.cache_timestamp (Optional)
    cache_source,     \* self.cache_source (Optional)
    cache_file,       \* content of hrv_cache.json (Optional record)
    now,              \* datetime.now(), in seconds
    ticks,            \* number of clock steps taken (bounds the clock)
    last_fetch,       \* the latest fetch_hrv_data call: result, adapters called
    last_fresh,       \* the latest call that obtained a value from the chain
    \* ---- DataAggregator ----
    agg_value,        \* hrv_value / notification_count / noise_level, by kind
    agg_timestamp,    \* hrv_timestamp / ... (Optional), by kind
    agg_status,       \* hrv_status / ..., by kind
    agg_lock,         \* hrv_lock / ...: the thread holding it (Optional), by kind
    last_written,     \* by kind, the argument of the latest update that entered
    \* ---- threads calling the DataAggregator ----
    th,               \* by thread: the call in progress, its position, its locals
    n_calls,          \* number of calls started
    \* ---- DataCollectorOrchestrator ----
    config,           \* self.config: collectors enabled, graceful_degradation
    stop_event,       \* self.stop_event
    col,              \* by kind: the collector thread's position and locals
    main,             \* the thread in run(): position, logged and sent data
    \* ---- calculate_fqs (backend/main.py) ----
    fqs_args,         \* the arguments hrv, notifications, noise_level
    fqs,              \* the value returned for them (Optional)
    \* ---- HRVCollector.__init__ ----
    ctor,             \* the latest construction: its arguments, whether it
                      \* raised, and self.adapter (Optional)
    load_result,      \* what load_cache() returned to run() (Optional)
    \* ---- parts checked on their own ----
    sim,              \* a SimulatedAdapter and its latest fetch_hrv call
    adapter_call,     \* the latest create_adapter / fetch_hrv call (Optional)
    nc,               \* a NotificationCounter and the threads calling it
    srv,              \* the backend of main.py: the request of POST /data,
                      \* the events emitted and the response
    wait_until,       \* by kind: when the collector's current sleep is over
    io                \* the calls in progress that leave the process, with
                      \* the locks held when each began (Optional)

fetchVars == <<sources, adapters, api_source, cached_hrv, cache_timestamp,
               cache_source, cache_file, now, ticks, last_fetch, last_fresh>>

aggVars == <<agg_value, agg_timestamp, agg_status, agg_lock, last_written>>

thVars == <<th, n_calls>>

orchVars == <<config, stop_event, col, main>>

fqsVars == <<fqs_args, fqs>>

\* the variables of the parts added to the model later: no action of the
\* collector, the aggregator or the orchestrator touches them
unitVars == <<sim, adapter_call, nc, srv>>

ioVars == <<wait_until, io>>

restVars == <<ctor, load_result, unitVars, ioVars>>

vars == <<fetchVars, aggVars, thVars, orchVars, fqsVars, restVars>>

-----------------------------------------------------------------------------
(* Optional values: None is the empty tuple, Some(v) the one-element tuple. *)
None == <<>>
Some(v) == <<v>>
IsSome(o) == o # <<>>
Val(o) == o[1]

Max(a, b) == IF a >= b THEN a ELSE b
Min(a, b) == IF a <= b THEN a ELSE b

-----------------------------------------------------------------------------
(* Bounds of the model. *)
MaxSources == 2     \* longest `sources` argument tried
MaxTicks == 2       \* clock steps per behaviour
NumThreads == 2     \* threads calling the DataAggregator concurrently
MaxCalls == 2       \* DataAggregator calls per behaviour
MaxClock == 1       \* latest clock reading while those calls run
MaxCounterCalls == 4  \* NotificationCounter calls per behaviour
MaxRequests == 2    \* POST /data requests per behaviour

(* Program constants. *)
CACHE_DURATION == 300
SIMULATED_HRV_MIN == 40
SIMULATED_HRV_MAX == 100
SIMULATED_HRV_MEAN == 70
WINDOW_DURATION == 300
BACKOFF_SECONDS == 5

(* Inputs. *)
SourceNames == {"fitbit", "garmin", "simulated", "bogus"}
SourceLists == UNION {[1..n -> SourceNames] : n \in 0..MaxSources}
\* the config file: none given, not found, invalid JSON, or valid with
\* an access token for the named sources
ConfigFiles == {[kind |-> "none", tokens |-> {}],
                [kind |-> "missing", tokens |-> {}],
                [kind |-> "invalid", tokens |-> {}],
                [kind |-> "ok", tokens |-> {}],
                [kind |-> "ok", tokens |-> {"fitbit"}]}
\* clock steps (seconds): one second, or one second short of the window
TickSteps == {1, CACHE_DURATION - 1}
\* random.gauss(MEAN, STDDEV) samples and random.gauss(0, 3) samples
\* (one pair per call: a call uses one of the two)
GaussSamples == {[init |-> SIMULATED_HRV_MEAN - 60, change |-> -30],
                 [init |-> SIMULATED_HRV_MEAN, change |-> 0],
                 [init |-> SIMULATED_HRV_MEAN + 60, change |-> 30]}
\* what a remote provider answers: an HTTP status and, on 200, a body that
\* holds an RMSSD value or not; status 0 stands for a RequestException
ApiValues == {35}
Responses == {[status |-> 200, body |-> Some(v)] : v \in ApiValues}
             \cup {[status |-> s, body |-> None] : s \in {200, 401, 429, 500, 0}}

\* the answer seen by an adapter that makes no network call
NoResponse == [status |-> 0, body |-> None]

-----------------------------------------------------------------------------
(* hrv_adapters.py *)

\* AdapterFactory._adapters: the class registered for a source name
AdapterRegistry(source) ==
    CASE source = "fitbit" -> "Fitbit"
      [] source = "garmin" -> "Garmin Connect"
      [] source = "oura" -> "Oura Ring"
      [] source \in {"apple_healthkit", "healthkit"} -> "Apple HealthKit"
      [] source = "simulated" -> "Simulated"
      [] OTHER -> "ValueError"

\* AdapterFactory.create_adapter: source_config is the set of keys present
create_adapter(source, has_token) ==
    [cls |-> AdapterRegistry(source), token |-> has_token, last_value |-> None]

\* SimulatedAdapter.fetch_hrv: the clamp to the realistic range
ClampSimulatedMut(x) == x
ClampSimulated(x) == Max(SIMULATED_HRV_MIN, Min(SIMULATED_HRV_MAX, x))

\* SimulatedAdapter.fetch_hrv with the two gauss samples it may use
SimulatedFetch(adapter, g) ==
    LET raw == IF IsSome(adapter.last_value)
               THEN Val(adapter.last_value) + g.change
               ELSE g.init
        new_hrv == ClampSimulated(raw)
    IN [hrv |-> Some(new_hrv),
        adapter |-> [adapter EXCEPT !.last_value = Some(new_hrv)],
        network |-> FALSE]

\* FitbitAdapter.fetch_hrv / OuraAdapter.fetch_hrv
RemoteFetch(adapter, resp) ==
    IF ~adapter.token
    THEN [hrv |-> None, adapter |-> adapter, network |-> FALSE]
    ELSE [hrv |-> IF resp.status = 200 THEN resp.body ELSE None,
          adapter |-> adapter, network |-> TRUE]

\* GarminAdapter.fetch_hrv / AppleHealthKitAdapter.fetch_hrv: placeholders
PlaceholderFetch(adapter) ==
    [hrv |-> None, adapter |-> adapter, network |-> FALSE]

\* adapter.fetch_hrv(), dispatched on the adapter's class
fetch_hrv(adapter, resp, g) ==
    CASE adapter.cls = "Simulated" -> SimulatedFetch(adapter, g)
      [] adapter.cls \in {"Fitbit", "Oura Ring"} -> RemoteFetch(adapter, resp)
      [] OTHER -> PlaceholderFetch(adapter)

-----------------------------------------------------------------------------
(* hrv_collector.py: construction *)

\* HRVCollector.__init__, lines 64-69: `sources` overrides api_source
InitSources(srcs, api) == IF Len(srcs) > 0 THEN srcs ELSE <<api>>

\* HRVCollector.load_config: a missing or invalid file falls back to simulated
ConfigSources(srcs, cfg) ==
    IF cfg.kind \in {"missing", "invalid"} THEN <<"simulated">> ELSE srcs

\* HRVCollector._initialize_adapters, the loop: unknown sources are skipped
RECURSIVE BuildAdapters(_, _)
BuildAdapters(srcs, tokens) ==
    IF srcs = <<>> THEN <<>>
    ELSE LET a == create_adapter(Head(srcs), Head(srcs) \in tokens)
             rest == BuildAdapters(Tail(srcs), tokens)
         IN IF a.cls = "ValueError" THEN rest ELSE <<a>> \o rest

\* HRVCollector._initialize_adapters, lines 123-131
InitAdapters(srcs, tokens) ==
    LET built == BuildAdapters(srcs, tokens)
    IN IF built = <<>>
       THEN [adapters |-> <<create_adapter("simulated", FALSE)>>,
             sources |-> <<"simulated">>]
       ELSE [adapters |-> built, sources |-> srcs]

-----------------------------------------------------------------------------
(* hrv_collector.py: cache and fetch *)

\* HRVCollector.should_fetch_new_data
should_fetch_new_dataMut(ts, t) ==
    IF ts = None THEN TRUE ELSE (t - Val(ts)) > CACHE_DURATION
should_fetch_new_data(ts, t) ==
    IF ts = None THEN TRUE ELSE (t - Val(ts)) >= CACHE_DURATION

\* datetime.isoformat() and datetime.fromisoformat(): the date and the time
\* of day of a clock reading, and the reading they stand for
isoformat(t) == [date |-> t \div 86400, time |-> t % 86400]
fromisoformat(s) == s.date * 86400 + s.time

\* HRVCollector.save_cache: the file is written first; if that raises, the
\* assignments to the in-memory cache are skipped
save_cache(cache, hrv, source, write_ok, t) ==
    IF write_ok
    THEN [hrv |-> Some(hrv), timestamp |-> Some(t), source |-> Some(source),
          file |-> Some([hrv |-> hrv, timestamp |-> isoformat(t),
                         source |-> source])]
    ELSE cache

\* HRVCollector.load_cache: a file that exists and is younger than
\* CACHE_DURATION is taken over, value and timestamp; the source is not
load_cacheMut(cache, t) ==
    IF cache.file = None
    THEN [ok |-> FALSE, hrv |-> cache.hrv, timestamp |-> cache.timestamp]
    ELSE LET cache_time == fromisoformat(Val(cache.file).timestamp)
             age == t - cache_time
         IN IF age <= CACHE_DURATION
            THEN [ok |-> TRUE, hrv |-> Some(Val(cache.file).hrv),
                  timestamp |-> Some(cache_time)]
            ELSE [ok |-> FALSE, hrv |-> cache.hrv, timestamp |-> cache.timestamp]
load_cache(cache, t) ==
    IF cache.file = None
    THEN [ok |-> FALSE, hrv |-> cache.hrv, timestamp |-> cache.timestamp]
    ELSE LET cache_time == fromisoformat(Val(cache.file).timestamp)
             age == t - cache_time
         IN IF age < CACHE_DURATION
            THEN [ok |-> TRUE, hrv |-> Some(Val(cache.file).hrv),
                  timestamp |-> Some(cache_time)]
            ELSE [ok |-> FALSE, hrv |-> cache.hrv, timestamp |-> cache.timestamp]

\* source_name = self.sources[i] if i < len(self.sources) else "unknown"
SourceNameAt(srcs, i) == IF i <= Len(srcs) THEN srcs[i] ELSE "unknown"

\* HRVCollector.fetch_hrv_data, line 225: `if hrv is not None` ends the loop
StopOnSuccessMut(hrv) == FALSE
StopOnSuccess(hrv) == IsSome(hrv)

\* HRVCollector.fetch_hrv_data, lines 219-231: the loop over the adapters.
\* Returns the value, the index of the adapter that produced it (0: none),
\* the adapters as the calls left them and the calls made, each with the
\* index of the adapter called and what it returned.
RECURSIVE TryAdapters(_, _, _, _, _)
TryAdapters(ads, i, resp, g, calls) ==
    IF i > Len(ads)
    THEN [hrv |-> None, idx |-> 0, adapters |-> ads, calls |-> calls]
    ELSE LET r == fetch_hrv(ads[i], resp[i], g)
             ads2 == [ads EXCEPT ![i] = r.adapter]
             calls2 == Append(calls, [idx |-> i, hrv |-> r.hrv])
         IN IF StopOnSuccess(r.hrv)
            THEN [hrv |-> r.hrv, idx |-> i, adapters |-> ads2, calls |-> calls2]
            ELSE TryAdapters(ads2, i + 1, resp, g, calls2)

\* HRVCollector.fetch_hrv_data, lines 236-243: last resort
NeedsFallback(srcs) == \A i \in 1..Len(srcs) : srcs[i] # "simulated"

CurrentCache ==
    [hrv |-> cached_hrv, timestamp |-> cache_timestamp, source |-> cache_source,
     file |-> cache_file]

\* HRVCollector.fetch_hrv_data as a whole
fetch_hrv_data(resp, g, write_ok) ==
    IF ~should_fetch_new_data(cache_timestamp, now)
    THEN [ret |-> cached_hrv, calls |-> <<>>, adapters |-> adapters,
          cache |-> CurrentCache, fresh |-> FALSE, fallback |-> FALSE]
    ELSE LET t == TryAdapters(adapters, 1, resp, g, <<>>)
         IN IF IsSome(t.hrv)
            THEN [ret |-> t.hrv, calls |-> t.calls, adapters |-> t.adapters,
                  cache |-> save_cache(CurrentCache, Val(t.hrv),
                                       SourceNameAt(sources, t.idx), write_ok, now),
                  fresh |-> TRUE, fallback |-> FALSE]
            ELSE IF NeedsFallback(sources)
            THEN LET f == fetch_hrv(create_adapter("simulated", FALSE), NoResponse, g)
                 IN [ret |-> f.hrv, calls |-> t.calls, adapters |-> t.adapters,
                     cache |-> save_cache(CurrentCache, Val(f.hrv), "simulated",
                                          write_ok, now),
                     fresh |-> TRUE, fallback |-> TRUE]
            ELSE [ret |-> None, calls |-> t.calls, adapters |-> t.adapters,
                  cache |-> CurrentCache, fresh |-> FALSE, fallback |-> FALSE]

NoFetch == [ret |-> None, calls |-> <<>>, fresh |-> FALSE, fallback |-> FALSE,
            called |-> FALSE]
NoFresh == [at |-> None, ret |-> None]

-----------------------------------------------------------------------------
(* data_collector_orchestrator.py: DataAggregator *)

Kinds == {"hrv", "notifications", "noise"}

DefaultValueMut == [k \in Kinds |-> 0]

\* DataAggregator.__init__: the default values
DefaultValue == [k \in Kinds |-> CASE k = "hrv" -> 70
                                   [] k = "notifications" -> 0
                                   [] k = "noise" -> 5]

\* values the collectors publish
Values == {1, 2}

Threads == 1..NumThreads

\* the locks get_aggregated_data takes, in the order of its with statement
AggLocksMut == <<"hrv">>
AggLocks == <<"hrv", "notifications", "noise">>

\* the order in which get_aggregated_data reads the three values
AggReads == <<"hrv", "notifications", "noise">>

\* the attributes get_status reads, in the order of its dict display
StatusReads ==
    <<<<"hrv", "status">>, <<"hrv", "value">>, <<"hrv", "last_update">>,
      <<"notifications", "status">>, <<"notifications", "value">>,
      <<"notifications", "last_update">>,
      <<"noise", "status">>, <<"noise", "value">>, <<"noise", "last_update">>>>

\* `with self.<kind>_lock` in update_*: entered only while the lock is free
UpdateMayEnterMut(k) == TRUE
UpdateMayEnter(k) == agg_lock[k] = None

\* the kind whose attributes update_<k> assigns
UpdateTargetMut(k) == "hrv"
UpdateTarget(k) == k

\* the status update_* assigns
UpdateStatus == "active"

\* DataAggregator.mark_collector_failed: the new statuses
MarkFailedMut(st, name) == [k \in Kinds |-> IF k = name THEN "failed" ELSE "not_started"]
MarkFailed(st, name) == IF name \in Kinds THEN [st EXCEPT ![name] = "failed"] ELSE st

Idle == [op |-> "idle", pc |-> 0, kind |-> "hrv", arg |-> 0, res |-> <<>>]

InitAggregator ==
    /\ agg_value = DefaultValue
    /\ agg_timestamp = [k \in Kinds |-> None]
    /\ agg_status = [k \in Kinds |-> "not_started"]
    /\ agg_lock = [k \in Kinds |-> None]
    /\ last_written = DefaultValue

InitThreads ==
    /\ th = [t \in Threads |-> Idle]
    /\ n_calls = 0

\* DataCollectorOrchestrator.get_default_config: every collector enabled,
\* graceful_degradation on
DefaultConfig == [enabled |-> [k \in Kinds |-> TRUE], graceful |-> TRUE]

ColIdle == [pc |-> "unstarted", val |-> None]
MainIdle == [pc |-> "init", threads |-> <<>>, logged |-> None, sent |-> None,
             answer |-> None, success |-> None, join |-> 0]

\* calculate_fqs has not been called
NoScore ==
    /\ fqs_args = [hrv |-> 100, notifications |-> 0, noise_level |-> 0]
    /\ fqs = None

\* SimulatedAdapter.__init__: self.last_value = None; no call made
SimIdle == [last_value |-> None, prev |-> None, g |-> None, ret |-> None]

\* no collector sleeps and no outbound call is in progress
IoIdle ==
    /\ wait_until = [k \in Kinds |-> None]
    /\ io = None

\* the parts checked on their own are as constructed
UnitIdle ==
    /\ sim = SimIdle
    /\ adapter_call = None
    /\ nc = None
    /\ srv = None
    /\ IoIdle

\* the parts of the program a specification leaves out are at rest
RestIdle ==
    /\ ctor = None
    /\ load_result = None
    /\ UnitIdle

\* DataCollectorOrchestrator.__init__ with the default configuration
InitOrchestrator ==
    /\ config = DefaultConfig
    /\ stop_event = FALSE
    /\ col = [k \in Kinds |-> ColIdle]
    /\ main = MainIdle

-----------------------------------------------------------------------------
(* SpecFetch: one HRVCollector, its clock and its callers *)

InitCollector ==
    \E srcs \in SourceLists, api \in SourceNames, cfg \in ConfigFiles :
        LET s1 == ConfigSources(InitSources(srcs, api), cfg)
            built == InitAdapters(s1, cfg.tokens)
        IN /\ sources = built.sources
           /\ adapters = built.adapters
           /\ api_source = built.sources[1]
    /\ cached_hrv = None
    /\ cache_timestamp = None
    /\ cache_source = None
    /\ cache_file = None
    /\ now = 0
    /\ ticks = 0
    /\ last_fetch = NoFetch
    /\ last_fresh = NoFresh

InitFetch ==
    InitCollector /\ InitAggregator /\ InitThreads /\ InitOrchestrator /\ NoScore
    /\ RestIdle

\* time passes
Tick ==
    /\ ticks < MaxTicks
    /\ \E d \in TickSteps : now' = now + d
    /\ ticks' = ticks + 1
    /\ UNCHANGED <<sources, adapters, api_source, cached_hrv, cache_timestamp,
                   cache_source, cache_file, last_fetch, last_fresh>>
    /\ UNCHANGED <<restVars, fqsVars, aggVars, thVars, orchVars>>

\* the answers the providers may give to one fetch: one per adapter that
\* makes a network call (the others get no answer)
RECURSIVE ResponseLists(_)
ResponseLists(ads) ==
    IF ads = <<>> THEN {<<>>}
    ELSE LET a == Head(ads)
             here == IF a.cls \in {"Fitbit", "Oura Ring"} /\ a.token
                     THEN Responses ELSE {NoResponse}
         IN {<<r>> \o rest : r \in here, rest \in ResponseLists(Tail(ads))}

\* the environment of one fetch_hrv_data call; a call answered from the
\* cache reads none of it
FetchInputs ==
    IF ~should_fetch_new_data(cache_timestamp, now)
    THEN {[resp |-> [i \in 1..Len(adapters) |-> NoResponse],
           g |-> CHOOSE g \in GaussSamples : g.change = 0, write_ok |-> TRUE]}
    ELSE [resp : ResponseLists(adapters), g : GaussSamples, write_ok : BOOLEAN]

\* a caller runs collector.fetch_hrv_data()
FetchHrvData ==
    \E in \in FetchInputs :
        LET r == fetch_hrv_data(in.resp, in.g, in.write_ok)
        IN /\ adapters' = r.adapters
           /\ cached_hrv' = r.cache.hrv
           /\ cache_timestamp' = r.cache.timestamp
           /\ cache_source' = r.cache.source
           /\ cache_file' = r.cache.file
           /\ last_fetch' = [ret |-> r.ret, calls |-> r.calls, fresh |-> r.fresh,
                             fallback |-> r.fallback, called |-> TRUE]
           /\ last_fresh' = IF r.fresh THEN [at |-> Some(now), ret |-> r.ret]
                             ELSE last_fresh
           /\ UNCHANGED <<sources, api_source, now, ticks>>
           /\ UNCHANGED <<restVars, fqsVars, aggVars, thVars, orchVars>>

NextFetch == Tick \/ FetchHrvData

SpecFetch == InitFetch /\ [][NextFetch]_vars

-----------------------------------------------------------------------------
(* SpecAgg: threads calling one DataAggregator, one step per statement *)

\* a DataAggregator on its own: the collector of SpecFetch stays as built
\* from the default configuration
InitAgg ==
    /\ sources = <<"simulated">>
    /\ adapters = <<create_adapter("simulated", FALSE)>>
    /\ api_source = "simulated"
    /\ cached_hrv = None
    /\ cache_timestamp = None
    /\ cache_source = None
    /\ cache_file = None
    /\ now = 0
    /\ ticks = 0
    /\ last_fetch = NoFetch
    /\ last_fresh = NoFresh
    /\ InitAggregator
    /\ InitThreads
    /\ InitOrchestrator
    /\ NoScore
    /\ RestIdle

Goto(t, pc) == th' = [th EXCEPT ![t].pc = pc]

\* the clock advances while the calls run
TickAgg ==
    /\ now < MaxClock
    /\ now' = now + 1
    /\ UNCHANGED <<sources, adapters, api_source, cached_hrv, cache_timestamp,
                   cache_source, cache_file, ticks, last_fetch, last_fresh>>
    /\ UNCHANGED <<restVars, fqsVars, aggVars, thVars, orchVars>>

\* a thread calls update_hrv / update_notifications / update_noise(value)
CallUpdate(t) ==
    /\ th[t].op = "idle"
    /\ n_calls < MaxCalls
    /\ \E k \in Kinds, v \in Values :
          th' = [th EXCEPT ![t] = [op |-> "update", pc |-> 1, kind |-> k,
                                   arg |-> v, res |-> <<>>]]
    /\ n_calls' = n_calls + 1
    /\ UNCHANGED <<restVars, fqsVars, fetchVars, orchVars, aggVars>>

\* with self.<kind>_lock:
UpdateAcquire(t) ==
    /\ th[t].op = "update" /\ th[t].pc = 1
    /\ UpdateMayEnter(th[t].kind)
    /\ agg_lock' = [agg_lock EXCEPT ![th[t].kind] = Some(t)]
    /\ last_written' = [last_written EXCEPT ![th[t].kind] = th[t].arg]
    /\ Goto(t, 2)
    /\ UNCHANGED <<restVars, fqsVars, fetchVars, orchVars, agg_value, agg_timestamp, agg_status, n_calls>>

\* self.<kind>_value = value
UpdateSetValue(t) ==
    /\ th[t].op = "update" /\ th[t].pc = 2
    /\ agg_value' = [agg_value EXCEPT ![UpdateTarget(th[t].kind)] = th[t].arg]
    /\ Goto(t, 3)
    /\ UNCHANGED <<restVars, fqsVars, fetchVars, orchVars, agg_timestamp, agg_status, agg_lock, last_written, n_calls>>

UpdateSetTimestampMut(t) ==
    /\ th[t].op = "update" /\ th[t].pc = 3
    /\ Goto(t, 4)
    /\ UNCHANGED <<restVars, fqsVars, fetchVars, orchVars, aggVars, n_calls>>

\* self.<kind>_timestamp = datetime.now()
UpdateSetTimestamp(t) ==
    /\ th[t].op = "update" /\ th[t].pc = 3
    /\ agg_timestamp' = [agg_timestamp EXCEPT ![UpdateTarget(th[t].kind)] = Some(now)]
    /\ Goto(t, 4)
    /\ UNCHANGED <<restVars, fqsVars, fetchVars, orchVars, agg_value, agg_status, agg_lock, last_written, n_calls>>

\* self.<kind>_status = "active"
UpdateSetStatus(t) ==
    /\ th[t].op = "update" /\ th[t].pc = 4
    /\ agg_status' = [agg_status EXCEPT ![UpdateTarget(th[t].kind)] = UpdateStatus]
    /\ Goto(t, 5)
    /\ UNCHANGED <<restVars, fqsVars, fetchVars, orchVars, agg_value, agg_timestamp, agg_lock, last_written, n_calls>>

UpdateReleaseMut(t) ==
    /\ th[t].op = "update" /\ th[t].pc = 5
    /\ th' = [th EXCEPT ![t] = Idle]
    /\ UNCHANGED <<restVars, fqsVars, fetchVars, orchVars, aggVars, n_calls>>

\* leaving the with block releases the lock, and the call returns
UpdateRelease(t) ==
    /\ th[t].op = "update" /\ th[t].pc = 5
    /\ agg_lock' = [agg_lock EXCEPT ![th[t].kind] = None]
    /\ th' = [th EXCEPT ![t] = Idle]
    /\ UNCHANGED <<restVars, fqsVars, fetchVars, orchVars, agg_value, agg_timestamp, agg_status, last_written, n_calls>>

\* a thread calls get_aggregated_data()
CallGetAggregatedData(t) ==
    /\ th[t].op = "idle"
    /\ n_calls < MaxCalls
    /\ th' = [th EXCEPT ![t] = [op |-> "get_aggregated_data", pc |-> 1,
                                kind |-> "hrv", arg |-> 0, res |-> <<>>]]
    /\ n_calls' = n_calls + 1
    /\ UNCHANGED <<restVars, fqsVars, fetchVars, orchVars, aggVars>>

\* with self.hrv_lock, self.notification_lock, self.noise_lock: the locks
\* are taken one after the other; pc counts the locks taken so far, plus one
AggAcquire(t) ==
    /\ th[t].op = "get_aggregated_data"
    /\ th[t].pc <= Len(AggLocks)
    /\ agg_lock[AggLocks[th[t].pc]] = None
    /\ agg_lock' = [agg_lock EXCEPT ![AggLocks[th[t].pc]] = Some(t)]
    /\ IF th[t].pc = Len(AggLocks) THEN Goto(t, 11) ELSE Goto(t, th[t].pc + 1)
    /\ UNCHANGED <<restVars, fqsVars, fetchVars, orchVars, agg_value, agg_timestamp, agg_status, last_written, n_calls>>

\* the dict display reads hrv_value, notification_count, noise_level in turn;
\* pc - 10 is the position of the next read
AggRead(t) ==
    /\ th[t].op = "get_aggregated_data"
    /\ th[t].pc > 10 /\ th[t].pc <= 10 + Len(AggReads)
    /\ th' = [th EXCEPT ![t].res = Append(@, agg_value[AggReads[th[t].pc - 10]]),
                        ![t].pc = IF @ = 10 + Len(AggReads) THEN 20 ELSE @ + 1]
    /\ UNCHANGED <<restVars, fqsVars, fetchVars, orchVars, aggVars, n_calls>>

AggReleaseMut(t) ==
    /\ th[t].op = "get_aggregated_data" /\ th[t].pc = 20
    /\ Goto(t, 21)
    /\ UNCHANGED <<restVars, fqsVars, fetchVars, orchVars, aggVars, n_calls>>

\* leaving the with block releases the locks
AggRelease(t) ==
    /\ th[t].op = "get_aggregated_data" /\ th[t].pc = 20
    /\ agg_lock' = [k \in Kinds |-> IF agg_lock[k] = Some(t) THEN None ELSE agg_lock[k]]
    /\ Goto(t, 21)
    /\ UNCHANGED <<restVars, fqsVars, fetchVars, orchVars, agg_value, agg_timestamp, agg_status, last_written, n_calls>>

\* the dict is returned to the caller
AggReturn(t) ==
    /\ th[t].op = "get_aggregated_data" /\ th[t].pc = 21
    /\ th' = [th EXCEPT ![t] = Idle]
    /\ UNCHANGED <<restVars, fqsVars, fetchVars, orchVars, aggVars, n_calls>>

\* a thread calls get_status()
CallGetStatus(t) ==
    /\ th[t].op = "idle"
    /\ n_calls < MaxCalls
    /\ th' = [th EXCEPT ![t] = [op |-> "get_status", pc |-> 1, kind |-> "hrv",
                                arg |-> 0, res |-> <<>>]]
    /\ n_calls' = n_calls + 1
    /\ UNCHANGED <<restVars, fqsVars, fetchVars, orchVars, aggVars>>

\* one attribute read of get_status: no lock is taken
StatusAttr(k, attr) ==
    CASE attr = "status" -> agg_status[k]
      [] attr = "value" -> agg_value[k]
      [] attr = "last_update" -> agg_timestamp[k]

StatusRead(t) ==
    /\ th[t].op = "get_status"
    /\ th[t].pc <= Len(StatusReads)
    /\ LET rd == StatusReads[th[t].pc]
       IN th' = [th EXCEPT ![t].res = Append(@, StatusAttr(rd[1], rd[2])),
                           ![t].pc = @ + 1]
    /\ UNCHANGED <<restVars, fqsVars, fetchVars, orchVars, aggVars, n_calls>>

\* the dict is returned to the caller
StatusReturn(t) ==
    /\ th[t].op = "get_status" /\ th[t].pc = Len(StatusReads) + 1
    /\ th' = [th EXCEPT ![t] = Idle]
    /\ UNCHANGED <<restVars, fqsVars, fetchVars, orchVars, aggVars, n_calls>>

\* a thread calls mark_collector_failed(name): one assignment, no lock
MarkCollectorFailed(t) ==
    /\ th[t].op = "idle"
    /\ n_calls < MaxCalls
    /\ \E name \in Kinds : agg_status' = MarkFailed(agg_status, name)
    /\ n_calls' = n_calls + 1
    /\ UNCHANGED <<restVars, fqsVars, fetchVars, orchVars, agg_value, agg_timestamp, agg_lock, last_written, th>>

NextAgg ==
    \/ TickAgg
    \/ \E t \in Threads :
          \/ CallUpdate(t)
          \/ UpdateAcquire(t)
          \/ UpdateSetValue(t)
          \/ UpdateSetTimestamp(t)
          \/ UpdateSetStatus(t)
          \/ UpdateRelease(t)
          \/ CallGetAggregatedData(t)
          \/ AggAcquire(t)
          \/ AggRead(t)
          \/ AggRelease(t)
          \/ AggReturn(t)
          \/ CallGetStatus(t)
          \/ StatusRead(t)
          \/ StatusReturn(t)
          \/ MarkCollectorFailed(t)

SpecAgg == InitAgg /\ [][NextAgg]_vars

-----------------------------------------------------------------------------
(* Spec: DataCollectorOrchestrator.run() with its collector threads.  The  *)
(* DataAggregator calls are single steps here: SpecAgg covers their        *)
(* statements and locks.                                                   *)

\* the configurations tried: any set of enabled collectors, either setting
\* of graceful_degradation
Configs == [enabled : [Kinds -> BOOLEAN], graceful : BOOLEAN]

\* the order in which run() starts the threads
StartOrder == <<"hrv", "notifications", "noise">>

\* what the sink answers to a dispatch: an HTTP status, or 0 for an exception
\* (connection error, timeout, any other)
SinkAnswers == {200, 204, 500, 0}

\* the HRVCollector of the hrv thread is the one built from the default
\* configuration; the clock stands still
Init ==
    /\ sources = <<"simulated">>
    /\ adapters = <<create_adapter("simulated", FALSE)>>
    /\ api_source = "simulated"
    /\ cached_hrv = None
    /\ cache_timestamp = None
    /\ cache_source = None
    /\ cache_file = None
    /\ now = 0
    /\ ticks = 0
    /\ last_fetch = NoFetch
    /\ last_fresh = NoFresh
    /\ InitAggregator
    /\ InitThreads
    /\ config \in Configs
    /\ stop_event = FALSE
    /\ col = [k \in Kinds |-> ColIdle]
    /\ main = MainIdle
    /\ NoScore
    /\ RestIdle

updateMut(k, v) ==
    /\ agg_value' = [agg_value EXCEPT ![UpdateTarget(k)] = v]
    /\ agg_status' = [agg_status EXCEPT ![UpdateTarget(k)] = UpdateStatus]
    /\ last_written' = [last_written EXCEPT ![k] = v]
    /\ UNCHANGED <<agg_lock, agg_timestamp>>

\* DataAggregator.update_hrv / update_notifications / update_noise
update(k, v) ==
    /\ agg_value' = [agg_value EXCEPT ![UpdateTarget(k)] = v]
    /\ agg_timestamp' = [agg_timestamp EXCEPT ![UpdateTarget(k)] = Some(now)]
    /\ agg_status' = [agg_status EXCEPT ![UpdateTarget(k)] = UpdateStatus]
    /\ last_written' = [last_written EXCEPT ![k] = v]
    /\ UNCHANGED agg_lock

\* DataAggregator.mark_collector_failed
mark_collector_failed(name) ==
    /\ agg_status' = MarkFailed(agg_status, name)
    /\ UNCHANGED <<agg_value, agg_timestamp, agg_lock, last_written>>

\* DataAggregator.get_aggregated_data
get_aggregated_data == [k \in Kinds |-> agg_value[k]]

EnabledFromMut(i) == <<>>

\* the enabled kinds, in the order run() starts their threads
RECURSIVE EnabledFrom(_)
EnabledFrom(i) ==
    IF i > Len(StartOrder) THEN <<>>
    ELSE (IF config.enabled[StartOrder[i]] THEN <<StartOrder[i]>> ELSE <<>>)
         \o EnabledFrom(i + 1)

\* run(), lines 457-486: start a thread per enabled collector; return at
\* once when there is none
RunStart ==
    /\ main.pc = "init"
    /\ LET started == EnabledFrom(1)
       IN /\ main' = [main EXCEPT !.threads = started,
                                  !.pc = IF started = <<>> THEN "returned" ELSE "loop"]
          /\ col' = [k \in Kinds |-> IF config.enabled[k]
                                     THEN [col[k] EXCEPT !.pc = "setup"] ELSE col[k]]
    /\ UNCHANGED <<restVars, fqsVars, fetchVars, aggVars, thVars, config, stop_event>>

\* run_*_collector up to its loop: the collector object is built (and, for
\* noise, the audio device opened)
ColSetup(k) ==
    /\ col[k].pc = "setup"
    /\ col' = [col EXCEPT ![k].pc = "check"]
    /\ UNCHANGED <<restVars, fqsVars, fetchVars, aggVars, thVars, config, stop_event, main>>

\* run_noise_collector, lines 383-386: initialize_audio() returns False; or
\* building a collector raises and the outer handler runs: the collector is
\* marked failed and its thread ends
ColSetupFails(k) ==
    /\ col[k].pc = "setup"
    /\ mark_collector_failed(k)
    /\ col' = [col EXCEPT ![k].pc = "done"]
    /\ UNCHANGED <<restVars, fqsVars, fetchVars, thVars, config, stop_event, main>>

\* while not self.stop_event.is_set():
ColCheck(k) ==
    /\ col[k].pc = "check"
    /\ col' = [col EXCEPT ![k].pc = IF stop_event THEN "done" ELSE "acquire"]
    /\ UNCHANGED <<restVars, fqsVars, fetchVars, aggVars, thVars, config, stop_event, main>>

\* the readings the collectors obtain
Readings == {1}

\* what one acquisition gives: fetch_hrv_data() a value (never None, see
\* FetchNeverNone); the normalized notification count; capture_noise_sample()
\* a noise level, or None when reading the stream raised
AcquireResults(k) ==
    IF k = "noise" THEN {Some(v) : v \in Readings} \cup {None}
    ELSE {Some(v) : v \in Readings}

\* hrv = collector.fetch_hrv_data() / counter.get_notification_count() and
\* normalize_notification_count / collector.capture_noise_sample()
ColAcquire(k) ==
    /\ col[k].pc = "acquire"
    /\ \E r \in AcquireResults(k) : col' = [col EXCEPT ![k] = [pc |-> "publish", val |-> r]]
    /\ UNCHANGED <<restVars, fqsVars, fetchVars, aggVars, thVars, config, stop_event, main>>

\* if value is not None: self.aggregator.update_*(value)
\* else: self.logger.warning(...)
ColPublish(k) ==
    /\ col[k].pc = "publish"
    /\ IF IsSome(col[k].val)
       THEN update(k, Val(col[k].val))
       ELSE UNCHANGED aggVars
    /\ col' = [col EXCEPT ![k] = [pc |-> "wait", val |-> None]]
    /\ UNCHANGED <<restVars, fqsVars, fetchVars, thVars, config, stop_event, main>>

\* self.stop_event.wait(timeout=interval) returns: the interval is over or
\* the event is set
ColWait(k) ==
    /\ col[k].pc = "wait"
    /\ col' = [col EXCEPT ![k].pc = "check"]
    /\ UNCHANGED <<restVars, fqsVars, fetchVars, aggVars, thVars, config, stop_event, main>>

ColRaiseGracefulMut(k) ==
    /\ col[k].pc \in {"acquire", "publish"}
    /\ config.graceful
    /\ col' = [col EXCEPT ![k] = [pc |-> "done", val |-> None]]
    /\ UNCHANGED <<restVars, fqsVars, fetchVars, aggVars, thVars, config, stop_event, main>>

\* a statement of the cycle raises, with graceful_degradation on: the inner
\* handler logs it and sleeps 5 s
ColRaiseGraceful(k) ==
    /\ col[k].pc \in {"acquire", "publish"}
    /\ config.graceful
    /\ col' = [col EXCEPT ![k] = [pc |-> "backoff", val |-> None]]
    /\ UNCHANGED <<restVars, fqsVars, fetchVars, aggVars, thVars, config, stop_event, main>>

ColRaiseFatalMut(k) ==
    /\ col[k].pc \in {"acquire", "publish"}
    /\ ~config.graceful
    /\ mark_collector_failed(k)
    /\ stop_event' = TRUE
    /\ col' = [col EXCEPT ![k] = [pc |-> "done", val |-> None]]
    /\ UNCHANGED <<restVars, fqsVars, fetchVars, thVars, config, main>>

\* a statement of the cycle raises, with graceful_degradation off: the inner
\* handler re-raises, the outer one marks the collector failed and re-raises,
\* and the thread ends
ColRaiseFatal(k) ==
    /\ col[k].pc \in {"acquire", "publish"}
    /\ ~config.graceful
    /\ mark_collector_failed(k)
    /\ col' = [col EXCEPT ![k] = [pc |-> "done", val |-> None]]
    /\ UNCHANGED <<restVars, fqsVars, fetchVars, thVars, config, stop_event, main>>

\* time.sleep(5) is over
ColBackoff(k) ==
    /\ col[k].pc = "backoff"
    /\ col' = [col EXCEPT ![k].pc = "check"]
    /\ UNCHANGED <<restVars, fqsVars, fetchVars, aggVars, thVars, config, stop_event, main>>

\* run(): while not self.stop_event.is_set():
MainCheck ==
    /\ main.pc = "loop"
    /\ main' = [main EXCEPT !.pc = IF stop_event THEN "stop" ELSE "snapshot"]
    /\ UNCHANGED <<restVars, fqsVars, fetchVars, aggVars, thVars, config, stop_event, col>>

\* run(), lines 491-498: data = get_aggregated_data(), and data is logged
MainSnapshot ==
    /\ main.pc = "snapshot"
    /\ main' = [main EXCEPT !.pc = "send", !.logged = Some(get_aggregated_data),
                            !.sent = None, !.answer = None, !.success = None]
    /\ UNCHANGED <<restVars, fqsVars, fetchVars, aggVars, thVars, config, stop_event, col>>

\* send_aggregated_data(), lines 432-446: True exactly for status 200; False
\* for any other status and for every exception
send_resultMut(answer) == answer # 0
send_result(answer) == answer = 200

\* success = self.send_aggregated_data(): data = get_aggregated_data() is
\* posted, the sink answers, and the result is logged
MainSend ==
    /\ main.pc = "send"
    /\ \E answer \in SinkAnswers :
          main' = [main EXCEPT !.pc = "wait", !.logged = None,
                               !.sent = Some(get_aggregated_data),
                               !.answer = Some(answer),
                               !.success = Some(send_result(answer))]
    /\ UNCHANGED <<restVars, fqsVars, fetchVars, aggVars, thVars, config, stop_event, col>>

\* self.stop_event.wait(timeout=send_interval) returns
MainWait ==
    /\ main.pc = "wait"
    /\ main' = [main EXCEPT !.pc = "loop"]
    /\ UNCHANGED <<restVars, fqsVars, fetchVars, aggVars, thVars, config, stop_event, col>>

\* KeyboardInterrupt reaches run() inside its try block
Interrupt ==
    /\ main.pc \in {"loop", "snapshot", "send", "wait"}
    /\ main' = [main EXCEPT !.pc = "stop"]
    /\ UNCHANGED <<restVars, fqsVars, fetchVars, aggVars, thVars, config, stop_event, col>>

StopMut ==
    /\ main.pc = "stop"
    /\ main' = [main EXCEPT !.pc = IF main.threads = <<>> THEN "stopped" ELSE "join",
                            !.join = 1]
    /\ UNCHANGED <<restVars, fqsVars, fetchVars, aggVars, thVars, config, col, stop_event>>

\* stop(): self.stop_event.set()
Stop ==
    /\ main.pc = "stop"
    /\ stop_event' = TRUE
    /\ main' = [main EXCEPT !.pc = IF main.threads = <<>> THEN "stopped" ELSE "join",
                            !.join = 1]
    /\ UNCHANGED <<restVars, fqsVars, fetchVars, aggVars, thVars, config, col>>

\* stop(): thread.join(timeout=2) returns, because the thread has ended or
\* because 2 s are over
Join ==
    /\ main.pc = "join"
    /\ main' = [main EXCEPT !.join = @ + 1,
                            !.pc = IF main.join = Len(main.threads)
                                   THEN "stopped" ELSE "join"]
    /\ UNCHANGED <<restVars, fqsVars, fetchVars, aggVars, thVars, config, stop_event, col>>

Next ==
    \/ RunStart
    \/ \E k \in Kinds :
          \/ ColSetup(k)
          \/ ColSetupFails(k)
          \/ ColCheck(k)
          \/ ColAcquire(k)
          \/ ColPublish(k)
          \/ ColWait(k)
          \/ ColRaiseGraceful(k)
          \/ ColRaiseFatal(k)
          \/ ColBackoff(k)
    \/ MainCheck
    \/ MainSnapshot
    \/ MainSend
    \/ MainWait
    \/ Interrupt
    \/ Stop
    \/ Join

Spec == Init /\ [][Next]_vars

\* every collector thread that can take a step of its loop eventually takes
\* one: its acquisition returns, its wait and its backoff end
CollectorStep(k) ==
    \/ ColCheck(k)
    \/ ColAcquire(k)
    \/ ColPublish(k)
    \/ ColWait(k)
    \/ ColBackoff(k)

\* the configurations of the runs checked for termination: the default one,
\* and those with graceful_degradation off and no notification counter
LiveConfigs ==
    {DefaultConfig} \cup {c \in Configs : ~c.graceful /\ ~c.enabled["notifications"]}

InitLive == Init /\ config \in LiveConfigs

SpecLive ==
    InitLive /\ [][Next]_vars /\ \A k \in Kinds : WF_vars(CollectorStep(k))

-----------------------------------------------------------------------------
(* SpecFqs: calculate_fqs (backend/main.py), a pure function of three      *)
(* numbers. The arguments are whole numbers with hrv - 40 a multiple of 6, *)
(* for which every quotient of the function is a whole number, so that the *)
(* integer quotients below are the exact values.                           *)

\* the arguments tried: inside, at the ends of and far outside the nominal
\* ranges 40..100, 0..5 and 0..10
HrvInputs == {-20, 34, 40, 46, 70, 82, 100, 106, 1000}
NotificationInputs == {-1, 0, 2, 5, 6, 20}
NoiseInputs == {-5, 0, 4, 10, 11, 50}

\* hrv_normalized = (hrv - 40) / 60; hrv_score = hrv_normalized * 50
hrv_scoreMut(hrv) == hrv - 40
hrv_score(hrv) == ((hrv - 40) * 50) \div 60

\* notification_normalized = notifications / 5
\* notification_score = (1 - notification_normalized) * 30
notification_score(notifications) == ((5 - notifications) * 30) \div 5

\* noise_normalized = noise_level / 10
\* noise_score = (1 - noise_normalized) * 20
noise_scoreMut(noise_level) == (noise_level * 20) \div 10
noise_score(noise_level) == ((10 - noise_level) * 20) \div 10

\* fqs = max(0.0, min(100.0, fqs))
clamp_fqsMut(x) == x
clamp_fqs(x) == Max(0, Min(100, x))

calculate_fqs(hrv, notifications, noise_level) ==
    clamp_fqs(hrv_score(hrv) + notification_score(notifications)
              + noise_score(noise_level))

InitFqs ==
    /\ fqs_args \in [hrv : HrvInputs, notifications : NotificationInputs,
                     noise_level : NoiseInputs]
    /\ fqs = None
    /\ sources = <<"simulated">>
    /\ adapters = <<create_adapter("simulated", FALSE)>>
    /\ api_source = "simulated"
    /\ cached_hrv = None
    /\ cache_timestamp = None
    /\ cache_source = None
    /\ cache_file = None
    /\ now = 0
    /\ ticks = 0
    /\ last_fetch = NoFetch
    /\ last_fresh = NoFresh
    /\ InitAggregator
    /\ InitThreads
    /\ InitOrchestrator
    /\ RestIdle

\* fqs = calculate_fqs(hrv, notifications, noise_level)
CalculateFqs ==
    /\ fqs = None
    /\ fqs' = Some(calculate_fqs(fqs_args.hrv, fqs_args.notifications,
                                 fqs_args.noise_level))
    /\ UNCHANGED <<restVars, fqs_args, fetchVars, aggVars, thVars, orchVars>>

NextFqs == CalculateFqs

SpecFqs == InitFqs /\ [][NextFqs]_vars

-----------------------------------------------------------------------------
(* Claims about HRVCollector, checked under SpecFetch *)

\* age of the in-memory cache entry
CacheAge == now - Val(cache_timestamp)

\* C1: fetch_hrv_data never returns None, and when every configured adapter
\* failed and "simulated" is not configured, the value of the fresh Simulated
\* adapter, which lies in [40,100], is returned and is then held by the cache.
C1_FallbackReturnedAndCached ==
    last_fetch.called =>
        /\ IsSome(last_fetch.ret)
        /\ last_fetch.fallback =>
              /\ Val(last_fetch.ret) >= SIMULATED_HRV_MIN
              /\ Val(last_fetch.ret) <= SIMULATED_HRV_MAX
              /\ cached_hrv = last_fetch.ret
              /\ IsSome(cache_timestamp)

\* the part of C1 that the code keeps: a value is always returned, and the
\* last-resort value lies in the simulated range
FetchNeverNone ==
    last_fetch.called =>
        /\ IsSome(last_fetch.ret)
        /\ last_fetch.fallback =>
              /\ Val(last_fetch.ret) >= SIMULATED_HRV_MIN
              /\ Val(last_fetch.ret) <= SIMULATED_HRV_MAX

\* C2: a fetch that refreshes calls the adapters in priority order 1, 2, ...,
\* every call but the last one made has failed, the value of the first
\* adapter that succeeds is returned with no later adapter called, and the
\* chain is exhausted only when every adapter failed.
C2_PriorityOrder ==
    LET calls == last_fetch.calls
        n == Len(calls)
    IN /\ \A j \in 1..n : calls[j].idx = j
       /\ \A j \in 1..(n - 1) : calls[j].hrv = None
       /\ n <= Len(adapters)
       /\ (n > 0 /\ IsSome(calls[n].hrv)) =>
              (last_fetch.ret = calls[n].hrv /\ ~last_fetch.fallback)
       /\ (n > 0 /\ calls[n].hrv = None) => n = Len(adapters)
       /\ (last_fetch.fresh /\ ~last_fetch.fallback) =>
              (n > 0 /\ IsSome(calls[n].hrv))

\* a fetch in which the first adapter failed and the second one supplied the
\* value, with a third adapter left uncalled or none
C2_Witness ==
    /\ Len(last_fetch.calls) = 2
    /\ last_fetch.calls[1].hrv = None
    /\ IsSome(last_fetch.calls[2].hrv)
    /\ last_fetch.ret = last_fetch.calls[2].hrv

\* C3: a fetch made less than CACHE_DURATION seconds after a fetch that
\* obtained a value from the chain returns that same value and calls no
\* adapter.
C3_CacheIdempotence ==
    [][(FetchHrvData /\ IsSome(last_fresh.at)
          /\ now - Val(last_fresh.at) < CACHE_DURATION)
       => (last_fetch'.ret = last_fresh.ret /\ last_fetch'.calls = <<>>
             /\ ~last_fetch'.fresh)]_vars

\* C4: should_fetch_new_data is true exactly when there is no cache entry or
\* its age is at least CACHE_DURATION: true at an age of exactly 300 s, false
\* at every smaller age.
C4_ShouldFetch ==
    /\ should_fetch_new_data(cache_timestamp, now)
         <=> (cache_timestamp = None \/ CacheAge >= CACHE_DURATION)
    /\ (IsSome(cache_timestamp) /\ CacheAge = CACHE_DURATION)
         => should_fetch_new_data(cache_timestamp, now)
    /\ (IsSome(cache_timestamp) /\ CacheAge < CACHE_DURATION)
         => ~should_fetch_new_data(cache_timestamp, now)
    /\ (last_fetch.called /\ IsSome(cache_timestamp) /\ CacheAge > 0
          /\ CacheAge < CACHE_DURATION) => last_fresh.at # Some(now)

\* a fetch made at a cache age of exactly CACHE_DURATION went to the adapters
\* (its write of the cache file failed, so the old entry is still there)
C4_Witness ==
    /\ IsSome(cache_timestamp)
    /\ CacheAge = CACHE_DURATION
    /\ last_fetch.fresh
    /\ last_fresh.at = Some(now)

-----------------------------------------------------------------------------
(* Claims about DataAggregator, checked under SpecAgg *)

\* thread t has taken a step in the next state
Stepped(t) == th'[t] # th[t]

\* C5: while get_aggregated_data reads, and until it releases its locks, every
\* value it has read is still the current value of its kind: no update takes
\* effect between its first and its last read, so the three values returned
\* are the three current values at one instant.
C5_UntornSnapshot ==
    \A t \in Threads :
        (th[t].op = "get_aggregated_data" /\ th[t].pc > 10 /\ th[t].pc <= 20) =>
            \A i \in 1..Len(th[t].res) : th[t].res[i] = agg_value[AggReads[i]]

\* a snapshot is complete while another thread waits to enter an update
C5_Witness ==
    \E t, u \in Threads :
        /\ th[t].op = "get_aggregated_data" /\ th[t].pc = 20
        /\ Len(th[t].res) = 3
        /\ th[u].op = "update" /\ th[u].pc = 1

\* C6: every statement of update_<k>(v) leaves the value, timestamp and status
\* of the other two kinds as they were; its three assignments set kind k's
\* value to v, its timestamp to the current time and its status to active,
\* and on return the value of k is v and its timestamp is set.
C6_UpdateEffect ==
    [][\A t \in Threads :
        (th[t].op = "update" /\ Stepped(t)) =>
            LET k == th[t].kind
            IN /\ \A j \in Kinds \ {k} :
                     /\ agg_value'[j] = agg_value[j]
                     /\ agg_timestamp'[j] = agg_timestamp[j]
                     /\ agg_status'[j] = agg_status[j]
               /\ th[t].pc = 2 => agg_value'[k] = th[t].arg
               /\ th[t].pc = 3 => agg_timestamp'[k] = Some(now)
               /\ th[t].pc = 4 => agg_status'[k] = "active"
               /\ th[t].pc = 5 => (agg_value[k] = th[t].arg /\ IsSome(agg_timestamp[k]))
      ]_vars

\* update_noise has made its three assignments at clock reading 1, with the
\* other kinds untouched
C6_Witness ==
    \E t \in Threads :
        /\ th[t].op = "update" /\ th[t].pc = 5 /\ th[t].kind = "noise"
        /\ agg_value["noise"] = th[t].arg
        /\ agg_timestamp["noise"] = Some(1)
        /\ agg_status["noise"] = "active"
        /\ agg_value["hrv"] = DefaultValue["hrv"]
        /\ agg_status["hrv"] = "not_started"

\* a step of mark_collector_failed: a call that leaves no call in progress
IsMarkFailedStep == n_calls' = n_calls + 1 /\ th' = th

\* C7: mark_collector_failed(k) sets the status of k to failed and changes
\* nothing else: no value, no timestamp, no other kind's status.
C7_MarkFailedFrame ==
    [][IsMarkFailedStep =>
          /\ agg_value' = agg_value
          /\ agg_timestamp' = agg_timestamp
          /\ \E k \in Kinds :
                /\ agg_status'[k] = "failed"
                /\ \A j \in Kinds \ {k} : agg_status'[j] = agg_status[j]
      ]_vars

\* a kind that had been updated is marked failed and keeps its last reading
C7_Witness ==
    \E k \in Kinds :
        /\ agg_status[k] = "failed"
        /\ agg_value[k] \in Values
        /\ agg_value[k] # DefaultValue[k]
        /\ IsSome(agg_timestamp[k])

\* some thread is inside the with block of update_<k>
Updating(k) ==
    \E t \in Threads : th[t].op = "update" /\ th[t].kind = k /\ th[t].pc > 1

\* C8: whenever no update of kind k is in progress, the value of k is the
\* argument of the update of k that entered last (the default before any):
\* never a value written to another kind, never a mix of two updates.
C8_LastWriterWins ==
    \A k \in Kinds : ~Updating(k) => agg_value[k] = last_written[k]

\* two writers contend for one kind: one is inside, the other waits
C8_Witness ==
    \E t, u \in Threads :
        /\ t # u
        /\ th[t].op = "update" /\ th[u].op = "update"
        /\ th[t].kind = th[u].kind
        /\ th[t].pc = 3 /\ th[u].pc = 1
        /\ th[t].arg # th[u].arg

\* a (status, value, last_update) triple that a kind can have between calls
ConsistentTriple(k, st, v, ts) ==
    /\ st = "not_started" => (ts = None /\ v = DefaultValue[k])
    /\ st = "active" => IsSome(ts)

\* C9: the triple get_status reports for a kind is a state that kind had at
\* one instant; in particular it never reports not_started together with a
\* last_update.
C9_StatusSerialized ==
    \A t \in Threads :
        (th[t].op = "get_status" /\ th[t].pc = Len(StatusReads) + 1) =>
            \A i \in {0, 1, 2} :
                ConsistentTriple(StatusReads[3 * i + 1][1], th[t].res[3 * i + 1],
                                 th[t].res[3 * i + 2], th[t].res[3 * i + 3])


\* ---------------------------------------------------------------------
\* Properties of the collector loops (specification Spec)
\* ---------------------------------------------------------------------

\* the collector of kind k finishes a cycle whose acquisition gave None
FailedCycle(k) == ColPublish(k) /\ col[k].val = None

\* C10: when the acquisition of a cycle returns None, the collector loop
\* marks that signal's status failed and leaves its current value unchanged
C10_FailedAcquisitionMarked ==
    [][\A k \in Kinds : FailedCycle(k) =>
          /\ agg_status'[k] = "failed"
          /\ agg_value'[k] = agg_value[k]]_vars

\* the part of C10 the loops do keep: a cycle whose acquisition gave None
\* changes nothing of the aggregate state, the status included
FailedCycleChangesNothing ==
    [][\A k \in Kinds : FailedCycle(k) => UNCHANGED aggVars]_vars


\* the state of the signals other than k, of the other collector threads and
\* of the thread in run() is what it was
OthersUntouched(k) ==
    /\ \A j \in Kinds \ {k} :
          /\ agg_value'[j] = agg_value[j]
          /\ agg_timestamp'[j] = agg_timestamp[j]
          /\ agg_status'[j] = agg_status[j]
          /\ col'[j] = col[j]
    /\ UNCHANGED <<main, stop_event>>

\* C11: with graceful_degradation on, an exception inside a cycle sends the
\* loop to its backoff and touches neither the other signals nor the dispatch
\* loop; after the backoff the loop checks the stop signal, and with the
\* signal clear it starts another cycle; the loop never ends while the signal
\* is clear
C11_GracefulCycleException ==
    [][\A k \in Kinds :
          /\ ColRaiseGraceful(k) => (col'[k].pc = "backoff" /\ OthersUntouched(k))
          /\ (config.graceful /\ col[k].pc = "backoff" /\ col'[k] # col[k])
                => col'[k].pc = "check"
          /\ (config.graceful /\ col[k].pc = "check" /\ col'[k] # col[k])
                => col'[k].pc = (IF stop_event THEN "done" ELSE "acquire")
          /\ (config.graceful /\ col[k].pc \in {"acquire", "publish", "wait", "backoff"})
                => col'[k].pc # "done"]_vars

\* a loop is in its backoff after an exception while another signal has been
\* published and the dispatch loop is between a snapshot and its dispatch
C11_Witness ==
    /\ config.graceful
    /\ ~stop_event
    /\ col["hrv"].pc = "backoff"
    /\ agg_status["noise"] = "active"
    /\ col["noise"].pc = "wait"
    /\ main.pc = "send"


\* C12: a collector thread that was started ends only after the stop signal
\* has been set
C12_StoppedOnlyOnSignal ==
    \A k \in Kinds : col[k].pc = "done" => stop_event

\* C13: a dispatch that fails (a status other than 200, or an exception) is
\* reported as False; the dispatch changes nothing of the collector loops,
\* the aggregate state or the stop signal; after it the send loop waits, goes
\* back to its test and, the stop signal clear, takes the next snapshot and
\* dispatches again; only an interrupt leaves the loop
C13_DispatchFailureIsolated ==
    [][/\ MainSend =>
             /\ main'.pc = "wait"
             /\ main'.success = Some(Val(main'.answer) = 200)
             /\ UNCHANGED <<col, stop_event, agg_value, agg_timestamp, agg_status>>
       /\ (main.pc = "wait" /\ main.success = Some(FALSE) /\ main' # main /\ ~Interrupt)
             => main'.pc = "loop"
       /\ (main.pc = "loop" /\ ~stop_event /\ main' # main /\ ~Interrupt)
             => main'.pc = "snapshot"
       /\ (main.pc = "snapshot" /\ main' # main /\ ~Interrupt)
             => main'.pc = "send"]_vars

\* the send loop is about to dispatch again although the sink answered the
\* dispatch before with an error status, all collector loops still running
C13_Witness ==
    /\ main.pc = "wait"
    /\ main.answer = Some(500)
    /\ main.success = Some(FALSE)
    /\ ~stop_event
    /\ \A k \in Kinds : col[k].pc \in {"check", "acquire", "publish", "wait"}


\* the steps stop() takes: the signal is set when the first join begins and
\* stays set; each join returns whatever its thread is doing, and there is one
\* join per started thread
StopIsBounded ==
    [][/\ main'.pc \in {"join", "stopped"} => stop_event'
       /\ stop_event => stop_event'
       /\ main.pc = "join" => ENABLED Join
       /\ Join => /\ main.join <= Len(main.threads)
                  /\ main'.join = main.join + 1
                  /\ main'.pc = (IF main.join = Len(main.threads) THEN "stopped" ELSE "join")
                  /\ UNCHANGED <<col, aggVars, stop_event>>]_vars

\* once the signal is set, a loop that is waiting goes to its test and a loop
\* at its test ends; no loop goes from its test to a new acquisition
LoopsObeyStop ==
    [][\A k \in Kinds :
          /\ (stop_event /\ col[k].pc = "wait" /\ col'[k] # col[k]) => col'[k].pc = "check"
          /\ (stop_event /\ col[k].pc = "check" /\ col'[k] # col[k]) => col'[k].pc = "done"]_vars

\* with the signal set, a loop that is waiting between cycles or inside a
\* cycle ends
LoopsEnd ==
    \A k \in Kinds :
       (stop_event /\ col[k].pc \in {"check", "acquire", "publish", "wait", "backoff"})
          ~> (col[k].pc = "done")

\* C14: stop() sets the stop signal before any join; every collector loop
\* that is waiting between cycles or completes its current cycle then ends;
\* stop() returns after one bounded join per collector thread even when a
\* loop has not ended
C14_StopTerminates == StopIsBounded /\ LoopsObeyStop /\ LoopsEnd

\* stop() has returned while one loop is still in its backoff and another
\* has ended
C14_Witness ==
    /\ main.pc = "stopped"
    /\ stop_event
    /\ col["hrv"].pc = "backoff"
    /\ col["noise"].pc = "done"


-----------------------------------------------------------------------------
(* Properties of calculate_fqs (specification SpecFqs) *)

\* C15: for every input, those far outside the nominal ranges included,
\* calculate_fqs returns a value v with 0 <= v <= 100
C15_ScoreRange ==
    IsSome(fqs) => (0 <= Val(fqs) /\ Val(fqs) <= 100)

\* the score of hrv = 1000 with a negative noise level has been computed
C15_Witness ==
    /\ IsSome(fqs)
    /\ fqs_args.hrv = 1000
    /\ fqs_args.noise_level < 0


\* C16: calculate_fqs is monotone in each argument, the other two held
\* fixed: non-decreasing in hrv, non-increasing in notifications and in noise
C16_Monotone ==
    IsSome(fqs) =>
       LET h == fqs_args.hrv
           n == fqs_args.notifications
           z == fqs_args.noise_level
       IN /\ \A h2 \in HrvInputs : h < h2 => Val(fqs) <= calculate_fqs(h2, n, z)
          /\ \A n2 \in NotificationInputs : n < n2 => Val(fqs) >= calculate_fqs(h, n2, z)
          /\ \A z2 \in NoiseInputs : z < z2 => Val(fqs) >= calculate_fqs(h, n, z2)

\* a score strictly between the bounds has been computed, for arguments that
\* have smaller and larger neighbours among the inputs
C16_Witness ==
    /\ IsSome(fqs)
    /\ fqs_args = [hrv |-> 70, notifications |-> 2, noise_level |-> 4]
    /\ Val(fqs) = 55

\* the score of the specification: every normalized ratio is clamped to
\* [0, 1] before it is weighted, the sum to [0, 100]
Clamp(x, lo, hi) == Max(lo, Min(hi, x))
ReferenceScore(hrv, notifications, noise_level) ==
    Clamp(Clamp(((hrv - 40) * 50) \div 60, 0, 50)
          + (30 - Clamp((notifications * 30) \div 5, 0, 30))
          + (20 - Clamp((noise_level * 20) \div 10, 0, 20)), 0, 100)

\* C17: for every input calculate_fqs equals the score in which each
\* normalized ratio is clamped to [0, 1] before weighting
C17_EqualsReference ==
    IsSome(fqs) =>
       Val(fqs) = ReferenceScore(fqs_args.hrv, fqs_args.notifications,
                                 fqs_args.noise_level)

\* C18: calculate_fqs returns 100 only for hrv >= 100, notifications <= 0
\* and noise <= 0, and 0 only for hrv <= 40, notifications >= 5 and
\* noise >= 10
C18_ExtremesOnlyAtExtremes ==
    IsSome(fqs) =>
       /\ Val(fqs) = 100 =>
             /\ fqs_args.hrv >= 100
             /\ fqs_args.notifications <= 0
             /\ fqs_args.noise_level <= 0
       /\ Val(fqs) = 0 =>
             /\ fqs_args.hrv <= 40
             /\ fqs_args.notifications >= 5
             /\ fqs_args.noise_level >= 10

\* the arguments are inside the nominal ranges
InNominalRange(a) ==
    /\ 40 <= a.hrv /\ a.hrv <= 100
    /\ 0 <= a.notifications /\ a.notifications <= 5
    /\ 0 <= a.noise_level /\ a.noise_level <= 10

\* C19: calculate_fqs(100, 0, 0) = 100, calculate_fqs(40, 5, 10) = 0, and
\* inside the nominal ranges the result is
\* ((hrv-40)/60)*50 + (1-notifications/5)*30 + (1-noise/10)*20, which lies
\* in 0..100 so that no clamp takes effect
C19_NominalFormula ==
    IsSome(fqs) =>
       LET a == fqs_args
           sum == ((a.hrv - 40) * 50) \div 60 + (30 - (a.notifications * 30) \div 5)
                  + (20 - (a.noise_level * 20) \div 10)
       IN /\ a = [hrv |-> 100, notifications |-> 0, noise_level |-> 0] => Val(fqs) = 100
          /\ a = [hrv |-> 40, notifications |-> 5, noise_level |-> 10] => Val(fqs) = 0
          /\ InNominalRange(a) => (Val(fqs) = sum /\ 0 <= sum /\ sum <= 100)

\* the score of (82, 2, 4), inside the nominal ranges, has been computed:
\* 35 + 18 + 12
C19_Witness ==
    /\ IsSome(fqs)
    /\ fqs_args = [hrv |-> 82, notifications |-> 2, noise_level |-> 4]
    /\ Val(fqs) = 65


-----------------------------------------------------------------------------
(* Properties of the defaults (specification Spec) *)

\* the signal k has never been published: its collector is disabled or has
\* not come to a successful cycle
NeverPublished(k) == agg_timestamp[k] = None

\* the value a snapshot holds for k, when the snapshot has been taken
SnapshotHolds(snap, k, v) == IsSome(snap) => Val(snap)[k] = v

\* C20: a new DataAggregator holds 70, 0 and 5, null timestamps and statuses
\* not_started; a signal whose collector is disabled, never starts or only
\* fails keeps its default value in every snapshot and is never active
C20_DefaultsKept ==
    /\ main.pc = "init" =>
          /\ agg_value = [hrv |-> 70, notifications |-> 0, noise |-> 5]
          /\ \A k \in Kinds : agg_timestamp[k] = None /\ agg_status[k] = "not_started"
    /\ \A k \in Kinds :
          LET v == [hrv |-> 70, notifications |-> 0, noise |-> 5][k]
          IN /\ (~config.enabled[k] \/ col[k].pc \in {"unstarted", "setup"})
                   => NeverPublished(k)
             /\ ~config.enabled[k] => agg_status[k] = "not_started"
             /\ NeverPublished(k) =>
                   /\ agg_value[k] = v
                   /\ agg_status[k] # "active"
                   /\ SnapshotHolds(main.logged, k, v)
                   /\ SnapshotHolds(main.sent, k, v)

\* a snapshot has been dispatched while the notification counter is
\* disabled, the noise collector has failed without a reading and hrv is
\* active
C20_Witness ==
    /\ ~config.enabled["notifications"]
    /\ agg_status["noise"] = "failed"
    /\ NeverPublished("noise")
    /\ agg_status["hrv"] = "active"
    /\ IsSome(main.sent)
    /\ Val(main.sent)["hrv"] = 1

-----------------------------------------------------------------------------
(* SpecBuild: the construction of an HRVCollector, from every argument list *)

\* the config files tried: those of ConfigFiles, a file that exists and
\* cannot be opened (open raises PermissionError), and a file holding valid
\* JSON that is not an object (json.load returns a list)
BuildConfigFiles ==
    ConfigFiles \cup {[kind |-> "unreadable", tokens |-> {}],
                      [kind |-> "not_object", tokens |-> {}]}

\* HRVCollector.load_config catches FileNotFoundError and JSONDecodeError
\* only; self.api_config.get(source, {}) in _initialize_adapters needs a
\* dict, and only ValueError is caught around it
ConstructionRaises(cfg) == cfg.kind \in {"unreadable", "not_object"}

\* no HRVCollector has been built
NoCollector ==
    /\ sources = <<>>
    /\ adapters = <<>>
    /\ api_source = "simulated"
    /\ cached_hrv = None
    /\ cache_timestamp = None
    /\ cache_source = None
    /\ cache_file = None
    /\ last_fetch = NoFetch
    /\ last_fresh = NoFresh

InitBuild ==
    /\ NoCollector
    /\ now = 0
    /\ ticks = 0
    /\ ctor = None
    /\ load_result = None
    /\ UnitIdle
    /\ InitAggregator
    /\ InitThreads
    /\ InitOrchestrator
    /\ NoScore

\* HRVCollector(api_source=api, config_file=cfg, sources=srcs)
Construct ==
    /\ ctor = None
    /\ \E srcs \in SourceLists, api \in SourceNames, cfg \in BuildConfigFiles :
          LET s0 == InitSources(srcs, api)
              s1 == ConfigSources(s0, cfg)
              built == InitAdapters(s1, cfg.tokens)
              args == [sources |-> srcs, api_source |-> api, config |-> cfg.kind]
          IN IF ConstructionRaises(cfg)
             THEN /\ sources' = s0
                  /\ api_source' = s0[1]
                  /\ adapters' = <<>>
                  /\ ctor' = Some([args |-> args, raised |-> TRUE, adapter |-> None])
             ELSE /\ sources' = built.sources
                  /\ api_source' = built.sources[1]
                  /\ adapters' = built.adapters
                  /\ ctor' = Some([args |-> args, raised |-> FALSE,
                                   adapter |-> Some(built.adapters[1])])
    /\ UNCHANGED <<cached_hrv, cache_timestamp, cache_source, cache_file, now,
                   ticks, last_fetch, last_fresh>>
    /\ UNCHANGED <<aggVars, thVars, orchVars, fqsVars, load_result, unitVars, ioVars>>

NextBuild == Construct

SpecBuild == InitBuild /\ [][NextBuild]_vars

\* the arguments name no source an adapter exists for
NoSourceUsable(args) ==
    LET s0 == InitSources(args.sources, args.api_source)
    IN \A i \in 1..Len(s0) : AdapterRegistry(s0[i]) = "ValueError"

\* the chain built is usable: not empty, its first adapter the primary one,
\* and one Simulated adapter alone when the arguments ask for it
ChainUsable(c) ==
    /\ ~c.raised
    /\ adapters # <<>>
    /\ c.adapter = Some(adapters[1])
    /\ (c.args.config \in {"missing", "invalid", "unreadable"} \/ NoSourceUsable(c.args))
          => (adapters = <<create_adapter("simulated", FALSE)>>
              /\ sources = <<"simulated">>)

\* C21: after HRVCollector is constructed with any sources list, any
\* api_source and any config file, the adapter chain is non-empty and its
\* primary adapter is the first of the chain; when no configured source can
\* be initialised or the config file cannot be read, the chain is exactly
\* one Simulated adapter
C21_ChainUsable ==
    IsSome(ctor) => ChainUsable(Val(ctor))

\* the part of C21 the constructor keeps: with no config file, a missing
\* one, one with invalid JSON or one holding a JSON object
ChainUsableWithParsedConfig ==
    (IsSome(ctor) /\ Val(ctor).args.config \in {"none", "missing", "invalid", "ok"})
       => ChainUsable(Val(ctor))

-----------------------------------------------------------------------------
(* Properties of the cache's recorded source (specification SpecFetch) *)

\* the class of the adapter that produced the value of the latest fetch
ProducerOfLastFetch ==
    IF last_fetch.fallback THEN "Simulated"
    ELSE adapters[last_fetch.calls[Len(last_fetch.calls)].idx].cls

\* the latest fetch obtained a new value and its save_cache wrote it
LastFetchCached ==
    /\ last_fetch.fresh
    /\ cache_timestamp = Some(now)
    /\ cached_hrv = last_fetch.ret

\* the source recorded in memory and in the cache file names the adapter
\* that produced the value
SourceNamesProducer ==
    /\ IsSome(cache_source)
    /\ AdapterRegistry(Val(cache_source)) = ProducerOfLastFetch
    /\ IsSome(cache_file)
    /\ AdapterRegistry(Val(cache_file).source) = ProducerOfLastFetch

\* C22: after a fetch that obtains a new value, the cache's recorded source,
\* in memory and in the cache file, names the source whose adapter produced
\* that value
C22_SourceRecorded ==
    LastFetchCached => SourceNamesProducer

\* the part of C22 that holds: when every configured source has an adapter,
\* self.sources and self.adapters are aligned and the record is right
SourceRecordedWhenAligned ==
    (LastFetchCached /\ Len(sources) = Len(adapters)) => SourceNamesProducer

-----------------------------------------------------------------------------
(* SpecCache: a collector on simulated data that is run, stopped and run   *)
(* again: HRVCollector.run() loads the cache file, then fetches            *)

InitCache ==
    /\ sources = <<"simulated">>
    /\ adapters = <<create_adapter("simulated", FALSE)>>
    /\ api_source = "simulated"
    /\ cached_hrv = None
    /\ cache_timestamp = None
    /\ cache_source = None
    /\ cache_file = None
    /\ now = 0
    /\ ticks = 0
    /\ last_fetch = NoFetch
    /\ last_fresh = NoFresh
    /\ ctor = None
    /\ load_result = None
    /\ UnitIdle
    /\ InitAggregator
    /\ InitThreads
    /\ InitOrchestrator
    /\ NoScore

\* time passes
TickCache ==
    /\ Tick
    /\ UNCHANGED load_result

\* run(), line 312: self.load_cache()
LoadCache ==
    /\ load_result = None
    /\ LET r == load_cache(CurrentCache, now)
       IN /\ load_result' = Some(r.ok)
          /\ cached_hrv' = r.hrv
          /\ cache_timestamp' = r.timestamp
    /\ UNCHANGED <<sources, adapters, api_source, cache_source, cache_file, now,
                   ticks, last_fetch, last_fresh, ctor>>
    /\ UNCHANGED <<aggVars, thVars, orchVars, fqsVars, unitVars, ioVars>>

\* run(), line 317: hrv = self.fetch_hrv_data()
RunFetch ==
    /\ load_result # None
    /\ FetchHrvData
    /\ UNCHANGED load_result

\* the process ends and the program is started again: a new HRVCollector,
\* the cache file as it was left
Restart ==
    /\ load_result # None
    /\ load_result' = None
    /\ adapters' = <<create_adapter("simulated", FALSE)>>
    /\ cached_hrv' = None
    /\ cache_timestamp' = None
    /\ cache_source' = None
    /\ last_fetch' = NoFetch
    /\ UNCHANGED <<sources, api_source, cache_file, now, ticks, last_fresh, ctor>>
    /\ UNCHANGED <<aggVars, thVars, orchVars, fqsVars, unitVars, ioVars>>

NextCache ==
    \/ TickCache
    \/ LoadCache
    \/ RunFetch
    \/ Restart

SpecCache == InitCache /\ [][NextCache]_vars

\* C23: a value written by save_cache and read by load_cache in a newly
\* built collector is restored with the same value and its original
\* timestamp when its age is below the validity window, and rejected (cache
\* absent, load_cache false) when its age is at or above it; the threshold
\* is the one should_fetch_new_data applies to a cache just written
C23_CacheRoundTrip ==
    [][/\ (RunFetch /\ cache_file' # cache_file) =>
             /\ Val(cache_file').hrv = Val(last_fetch'.ret)
             /\ fromisoformat(Val(cache_file').timestamp) = now
       /\ (LoadCache /\ cache_file # None) =>
             LET written == fromisoformat(Val(cache_file).timestamp)
                 fresh == now - written < 300
             IN /\ fresh = ~should_fetch_new_data(Some(written), now)
                /\ fresh => /\ load_result' = Some(TRUE)
                            /\ cached_hrv' = Some(Val(cache_file).hrv)
                            /\ cache_timestamp' = Some(written)
                /\ ~fresh => /\ load_result' = Some(FALSE)
                             /\ cached_hrv' = None
                             /\ cache_timestamp' = None
       /\ (LoadCache /\ cache_file = None) =>
             (load_result' = Some(FALSE) /\ cached_hrv' = None)]_vars

\* a newly built collector has restored a cache written 299 s before
C23_Witness ==
    /\ load_result = Some(TRUE)
    /\ last_fetch = NoFetch
    /\ cached_hrv = last_fresh.ret
    /\ cache_timestamp = last_fresh.at
    /\ now - Val(cache_timestamp) = CACHE_DURATION - 1

\* a newly built collector has rejected a cache written 300 s before
CacheRejectedAtWindow ==
    /\ load_result = Some(FALSE)
    /\ cache_file # None
    /\ now - fromisoformat(Val(cache_file).timestamp) = CACHE_DURATION

-----------------------------------------------------------------------------
(* SpecHrvLoop: the loop of run_hrv_collector with its HRVCollector and    *)
(* the clock; the other collectors are not started                         *)

\* the "sources" of the hrv collector's configuration
HrvLoopSources == {<<"simulated">>, <<"garmin">>, <<"garmin", "simulated">>}

\* run_hrv_collector has built its HRVCollector and is at the loop's test
InitHrvLoop ==
    /\ \E srcs \in HrvLoopSources :
          LET built == InitAdapters(srcs, {})
          IN /\ sources = built.sources
             /\ adapters = built.adapters
             /\ api_source = built.sources[1]
    /\ cached_hrv = None
    /\ cache_timestamp = None
    /\ cache_source = None
    /\ cache_file = None
    /\ now = 0
    /\ ticks = 0
    /\ last_fetch = NoFetch
    /\ last_fresh = NoFresh
    /\ RestIdle
    /\ InitAggregator
    /\ InitThreads
    /\ config = [DefaultConfig EXCEPT !.enabled = [k \in Kinds |-> k = "hrv"]]
    /\ stop_event = FALSE
    /\ col = [k \in Kinds |-> IF k = "hrv" THEN [ColIdle EXCEPT !.pc = "check"]
                                            ELSE ColIdle]
    /\ main = [MainIdle EXCEPT !.pc = "loop", !.threads = <<"hrv">>]
    /\ NoScore

\* hrv = collector.fetch_hrv_data()
HrvAcquire ==
    /\ col["hrv"].pc = "acquire"
    /\ \E in \in FetchInputs :
          LET r == fetch_hrv_data(in.resp, in.g, in.write_ok)
          IN /\ adapters' = r.adapters
             /\ cached_hrv' = r.cache.hrv
             /\ cache_timestamp' = r.cache.timestamp
             /\ cache_source' = r.cache.source
             /\ cache_file' = r.cache.file
             /\ last_fetch' = [ret |-> r.ret, calls |-> r.calls, fresh |-> r.fresh,
                               fallback |-> r.fallback, called |-> TRUE]
             /\ last_fresh' = IF r.fresh THEN [at |-> Some(now), ret |-> r.ret]
                               ELSE last_fresh
             /\ col' = [col EXCEPT !["hrv"] = [pc |-> "publish", val |-> r.ret]]
    /\ UNCHANGED <<sources, api_source, now, ticks>>
    /\ UNCHANGED <<restVars, fqsVars, aggVars, thVars, config, stop_event, main>>

HrvCheck == ColCheck("hrv")
HrvPublish == ColPublish("hrv")
HrvWait == ColWait("hrv")

NextHrvLoop ==
    \/ Tick
    \/ HrvCheck
    \/ HrvAcquire
    \/ HrvPublish
    \/ HrvWait

SpecHrvLoop == InitHrvLoop /\ [][NextHrvLoop]_vars

\* the cache is valid: fetch_hrv_data answers from it
CacheValid ==
    /\ IsSome(cache_timestamp)
    /\ now - Val(cache_timestamp) < CACHE_DURATION

\* C24: when the HRV cache is still valid, a collector cycle makes no
\* adapter call and publishes the cached value: the HRV value equals the
\* cached value, its status is active and its last_update advances to the
\* time of the cycle
C24_CachedCyclePublishes ==
    [][/\ (HrvAcquire /\ CacheValid) =>
             /\ last_fetch'.calls = <<>>
             /\ ~last_fetch'.fresh
             /\ adapters' = adapters
             /\ col'["hrv"] = [pc |-> "publish", val |-> cached_hrv]
             /\ IsSome(cached_hrv) /\ cached_hrv' = cached_hrv
       /\ (HrvPublish /\ ~last_fetch.fresh) =>
             /\ agg_value'["hrv"] = Val(cached_hrv)
             /\ agg_status'["hrv"] = "active"
             /\ agg_timestamp'["hrv"] = Some(now)
             /\ IsSome(agg_timestamp["hrv"]) =>
                   Val(agg_timestamp'["hrv"]) >= Val(agg_timestamp["hrv"])]_vars

\* a cycle answered from a cache 299 s old has published: last_update is
\* later than the time the value was fetched
C24_Witness ==
    /\ col["hrv"].pc = "wait"
    /\ last_fetch.called /\ ~last_fetch.fresh
    /\ agg_value["hrv"] = Val(cached_hrv)
    /\ agg_timestamp["hrv"] = Some(now)
    /\ now - Val(cache_timestamp) = CACHE_DURATION - 1

-----------------------------------------------------------------------------
(* Properties of the dispatch and of run() (specification Spec) *)

\* C25: send_aggregated_data reports success exactly when the sink answers
\* with a 2xx status; every other status and every exception is a failure
C25_SuccessIs2xx ==
    IsSome(main.answer) =>
       (main.success = Some(TRUE)) = (Val(main.answer) \in 200..299)

\* the part of C25 that holds: status 200 is a success, a status outside
\* 200..299 and an exception are failures
SuccessOnlyFor2xx ==
    IsSome(main.answer) =>
       /\ Val(main.answer) = 200 => main.success = Some(TRUE)
       /\ Val(main.answer) \notin 200..299 => main.success = Some(FALSE)

\* the send loop of run(): its test, the snapshot, the dispatch, the wait
InSendLoop == main.pc \in {"loop", "snapshot", "send", "wait"}

NoCollectorEnabled == \A k \in Kinds : ~config.enabled[k]

\* C26: with no collector enabled run() starts no thread, dispatches nothing
\* and returns; otherwise run() enters its send loop, and whatever the
\* collectors and the sink do (a collector failed or ended, the sink
\* answering with an error or not at all) it leaves the loop only when the
\* stop signal is set or an interrupt asks for the stop
C26_RunKeepsDispatching ==
    [][/\ RunStart =>
             IF NoCollectorEnabled
             THEN /\ main'.pc = "returned"
                  /\ main'.threads = <<>>
                  /\ main'.sent = None
                  /\ \A k \in Kinds : col'[k] = ColIdle
             ELSE /\ main'.pc = "loop"
                  /\ Len(main'.threads) = Cardinality({k \in Kinds : config.enabled[k]})
                  /\ \A k \in Kinds : config.enabled[k] <=> col'[k].pc = "setup"
       /\ main.pc = "returned" => /\ main' = main
                                  /\ main.sent = None
                                  /\ col' = col
       /\ (InSendLoop /\ main' # main /\ ~Interrupt /\ ~(main.pc = "loop" /\ stop_event))
             => /\ main'.pc = CASE main.pc = "loop" -> "snapshot"
                                [] main.pc = "snapshot" -> "send"
                                [] main.pc = "send" -> "wait"
                                [] main.pc = "wait" -> "loop"
                /\ main.pc = "send" => main'.sent = Some(get_aggregated_data)
      ]_vars

\* the send loop goes on to its next dispatch although the sink did not answer
\* the last one and every collector thread has ended, the stop signal clear
C26_Witness ==
    /\ main.pc = "snapshot"
    /\ main.threads # <<>>
    /\ \A k \in Kinds : config.enabled[k] => col[k].pc = "done"
    /\ \E k \in Kinds : agg_status[k] = "failed"
    /\ ~stop_event

\* run() has returned without a thread and without a dispatch
RunReturnedAtOnce ==
    /\ main.pc = "returned"
    /\ main.threads = <<>>
    /\ main.sent = None

-----------------------------------------------------------------------------
(* SpecSim: one SimulatedAdapter called again and again.  Values are in    *)
(* hundredths of a millisecond, so that round(new_hrv, 1) has work to do   *)

\* random.gauss(SIMULATED_HRV_MEAN, SIMULATED_HRV_STDDEV), in hundredths: far
\* below the range, around the mean, far above the range
SimInits == {SIMULATED_HRV_MEAN * 100 - 6000, SIMULATED_HRV_MIN * 100 - 4,
             SIMULATED_HRV_MEAN * 100 - 38, SIMULATED_HRV_MEAN * 100,
             SIMULATED_HRV_MEAN * 100 + 38, SIMULATED_HRV_MAX * 100 + 4,
             SIMULATED_HRV_MEAN * 100 + 6000}

\* random.gauss(0, 3), in hundredths; no sample lands half way between two
\* tenths, where the result of round() depends on the float's last bit
SimChanges == {-3000, -304, -12, 0, 13, 296, 3000}

\* new_hrv = max(SIMULATED_HRV_MIN, min(SIMULATED_HRV_MAX, new_hrv))
clamp_new_hrvMut(x) == x
clamp_new_hrv(x) == Max(SIMULATED_HRV_MIN * 100, Min(SIMULATED_HRV_MAX * 100, x))

\* new_hrv = round(new_hrv, 1): to the nearest tenth
round_new_hrv(x) == ((x + 5) \div 10) * 10

\* SimulatedAdapter.fetch_hrv: the value returned for the samples g
fetch_hrv_simulated(last_value, g) ==
    LET new_hrv == IF last_value # None
                   THEN Val(last_value) + g.change
                   ELSE g.init
    IN round_new_hrv(clamp_new_hrv(new_hrv))

InitSim ==
    /\ NoCollector
    /\ now = 0
    /\ ticks = 0
    /\ ctor = None
    /\ load_result = None
    /\ UnitIdle
    /\ InitAggregator
    /\ InitThreads
    /\ InitOrchestrator
    /\ NoScore

\* adapter.fetch_hrv() on the SimulatedAdapter
SimFetchHrv ==
    /\ \E i \in SimInits, c \in SimChanges :
          LET g == [init |-> i, change |-> c]
              new_hrv == fetch_hrv_simulated(sim.last_value, g)
          IN sim' = [last_value |-> Some(new_hrv), prev |-> sim.last_value,
                     g |-> Some(g), ret |-> Some(new_hrv)]
    /\ UNCHANGED <<ioVars, ctor, load_result, adapter_call, nc, srv>>
    /\ UNCHANGED <<fetchVars, aggVars, thVars, orchVars, fqsVars>>

NextSim == SimFetchHrv

SpecSim == InitSim /\ [][NextSim]_vars

\* the distance of two values
Dist(a, b) == IF a >= b THEN a - b ELSE b - a

\* C27: every call of SimulatedAdapter.fetch_hrv returns a value, and the
\* value lies in [40, 100]; the first one is the baseline sample and every
\* later one the value returned before plus the perturbation, each clamped to
\* [40, 100] (and given to one decimal: at most 0.05 away)
C27_SimulatedBoundedWalk ==
    /\ [](sim.g # None =>
            /\ IsSome(sim.ret)
            /\ Val(sim.ret) >= SIMULATED_HRV_MIN * 100
            /\ Val(sim.ret) <= SIMULATED_HRV_MAX * 100
            /\ sim.last_value = sim.ret
            /\ LET drawn == IF sim.prev = None THEN Val(sim.g).init
                            ELSE Val(sim.prev) + Val(sim.g).change
               IN Dist(Val(sim.ret),
                       Clamp(drawn, SIMULATED_HRV_MIN * 100, SIMULATED_HRV_MAX * 100)) <= 5)
    /\ [][SimFetchHrv => (sim'.prev = sim.ret /\ sim'.g # None)]_vars

\* a call has returned the upper limit although the value returned before
\* plus the perturbation lies above it
C27_Witness ==
    /\ IsSome(sim.prev)
    /\ Val(sim.prev) + Val(sim.g).change > SIMULATED_HRV_MAX * 100
    /\ sim.ret = Some(SIMULATED_HRV_MAX * 100)
    /\ Val(sim.prev) < SIMULATED_HRV_MAX * 100

\* a call has returned a value that is the drawn one rounded to a tenth
SimulatedValueRounded ==
    /\ IsSome(sim.prev)
    /\ Val(sim.ret) # Val(sim.prev) + Val(sim.g).change
    /\ Val(sim.ret) \notin {SIMULATED_HRV_MIN * 100, SIMULATED_HRV_MAX * 100}

-----------------------------------------------------------------------------
(* SpecAdapter: AdapterFactory.create_adapter with every kind of source    *)
(* configuration, and fetch_hrv of the adapter it returns with every kind  *)
(* of answer of the provider                                               *)

\* the source names given to create_adapter
AdapterSourceNames ==
    {"fitbit", "Fitbit", "garmin", "oura", "apple_healthkit", "healthkit",
     "simulated", "bogus"}

\* source.lower()
lower(source) == IF source = "Fitbit" THEN "fitbit" ELSE source

GarminFields == {"consumer_key", "consumer_secret", "access_token", "access_token_secret"}

\* the value found for a source in the configuration file: an object with
\* some keys (the access token, if present, empty or not), or a JSON value
\* that is no object
AdapterConfigs ==
    {[type |-> "dict", keys |-> {}, token |-> FALSE],
     [type |-> "dict", keys |-> {"access_token"}, token |-> TRUE],
     [type |-> "dict", keys |-> {"access_token"}, token |-> FALSE],
     [type |-> "dict", keys |-> GarminFields, token |-> TRUE],
     [type |-> "list", keys |-> {}, token |-> FALSE],
     [type |-> "str", keys |-> {}, token |-> FALSE],
     [type |-> "null", keys |-> {}, token |-> FALSE],
     [type |-> "int", keys |-> {}, token |-> FALSE]}

\* `field in self.config`: the key of a dict, the element of a list, the
\* substring of a string; TypeError for None and for a number
Contains(cfg, fields) ==
    IF cfg.type \in {"null", "int"} THEN "TypeError"
    ELSE IF fields \subseteq cfg.keys THEN "True" ELSE "False"

\* validate_config of the adapter classes
validate_config(cls, cfg) ==
    CASE cls \in {"Fitbit", "Oura Ring"} -> Contains(cfg, {"access_token"})
      [] cls = "Garmin Connect" -> Contains(cfg, GarminFields)
      [] OTHER -> "True"

\* AdapterFactory.create_adapter(source, config): ValueError for a name that
\* is not registered; otherwise the adapter, after a warning when
\* validate_config() is False; an exception of validate_config() propagates
AdapterFactory_create_adapter(source, cfg) ==
    LET cls == AdapterRegistry(lower(source))
    IN IF cls = "ValueError"
       THEN [raised |-> "ValueError", adapter |-> None, warned |-> FALSE]
       ELSE IF validate_config(cls, cfg) = "TypeError"
       THEN [raised |-> "TypeError", adapter |-> None, warned |-> FALSE]
       ELSE [raised |-> "none",
             adapter |-> Some([cls |-> cls, config |-> cfg, last_value |-> None]),
             warned |-> validate_config(cls, cfg) = "False"]

\* what requests.get() and the decoding of its response give: an error
\* status, a RequestException, a 200 whose body is no JSON, holds no reading
\* or a reading that is no number, or a 200 with an RMSSD value
ProviderAnswers ==
    {[kind |-> "status", status |-> s] : s \in {401, 429, 500, 204}}
    \cup {[kind |-> k, status |-> 200] : k \in {"bad_json", "no_data", "bad_value", "rmssd"}}
    \cup {[kind |-> "request_exception", status |-> 0]}

\* FitbitAdapter.fetch_hrv / OuraAdapter.fetch_hrv: self.config.get raises
\* for a config that is no dict, inside the try block
remote_fetch_hrv(cfg, answer) ==
    IF cfg.type # "dict" THEN [ret |-> None, calls |-> 0, raised |-> FALSE]
    ELSE IF ~("access_token" \in cfg.keys /\ cfg.token)
    THEN [ret |-> None, calls |-> 0, raised |-> FALSE]
    ELSE [ret |-> IF answer.kind = "rmssd" THEN Some(CHOOSE v \in ApiValues : TRUE)
                  ELSE None,
          calls |-> 1, raised |-> FALSE]

\* adapter.fetch_hrv() of any class
adapter_fetch_hrv(adapter, answer, g) ==
    CASE adapter.cls \in {"Fitbit", "Oura Ring"} -> remote_fetch_hrv(adapter.config, answer)
      [] adapter.cls = "Simulated" ->
            [ret |-> SimulatedFetch(adapter, g).hrv, calls |-> 0, raised |-> FALSE]
      [] OTHER -> [ret |-> None, calls |-> 0, raised |-> FALSE]

InitAdapter ==
    /\ NoCollector
    /\ now = 0
    /\ ticks = 0
    /\ ctor = None
    /\ load_result = None
    /\ UnitIdle
    /\ InitAggregator
    /\ InitThreads
    /\ InitOrchestrator
    /\ NoScore

\* adapter = AdapterFactory.create_adapter(source, config)
CreateAdapter ==
    /\ \E source \in AdapterSourceNames, cfg \in AdapterConfigs :
          LET r == AdapterFactory_create_adapter(source, cfg)
          IN adapter_call' = Some([op |-> "create", source |-> source, config |-> cfg,
                                   raised |-> r.raised, adapter |-> r.adapter,
                                   answer |-> None, ret |-> None, calls |-> 0])
    /\ UNCHANGED <<ioVars, ctor, load_result, sim, nc, srv>>
    /\ UNCHANGED <<fetchVars, aggVars, thVars, orchVars, fqsVars>>

\* adapter.fetch_hrv() on the adapter that was created
AdapterFetchHrv ==
    /\ adapter_call # None
    /\ Val(adapter_call).adapter # None
    /\ \E answer \in ProviderAnswers, g \in GaussSamples :
          LET r == adapter_fetch_hrv(Val(Val(adapter_call).adapter), answer, g)
          IN adapter_call' = Some([Val(adapter_call) EXCEPT
                                      !.op = "fetch",
                                      !.raised = IF r.raised THEN "Exception" ELSE "none",
                                      !.answer = Some(answer),
                                      !.ret = r.ret,
                                      !.calls = r.calls])
    /\ UNCHANGED <<ioVars, ctor, load_result, sim, nc, srv>>
    /\ UNCHANGED <<fetchVars, aggVars, thVars, orchVars, fqsVars>>

NextAdapter == CreateAdapter \/ AdapterFetchHrv

SpecAdapter == InitAdapter /\ [][NextAdapter]_vars

\* the configuration holds no usable access token
TokenMissing(cfg) == ~(cfg.type = "dict" /\ "access_token" \in cfg.keys /\ cfg.token)

\* fetch_hrv never raises; a provider adapter returns None for a missing
\* token, then without an outbound call, and for every answer but a 200 with
\* a reading; the placeholders return None
FetchFailuresAreNone(c) ==
    c.op = "fetch" =>
       /\ c.raised = "none"
       /\ Val(c.adapter).cls \in {"Fitbit", "Oura Ring"} =>
             /\ TokenMissing(c.config) => (c.ret = None /\ c.calls = 0)
             /\ Val(c.answer).kind # "rmssd" => c.ret = None
             /\ c.calls <= 1
       /\ Val(c.adapter).cls \in {"Garmin Connect", "Apple HealthKit"} =>
             (c.ret = None /\ c.calls = 0)

\* create_adapter raises ValueError for an unknown name and returns an adapter
\* for every other one, whatever the configuration
CreateReturnsAdapter(c) ==
    c.op = "create" =>
       IF AdapterRegistry(lower(c.source)) = "ValueError"
       THEN c.raised = "ValueError" /\ c.adapter = None
       ELSE c.raised = "none" /\ c.adapter # None

\* C28: no adapter's fetch_hrv raises, every failure is returned as None, a
\* missing access token gives None without an outbound call; create_adapter
\* returns an adapter even when the configuration is invalid and raises
\* ValueError for an unknown source name
C28_AdaptersNeverRaise ==
    adapter_call # None =>
       /\ FetchFailuresAreNone(Val(adapter_call))
       /\ CreateReturnsAdapter(Val(adapter_call))

\* the part of C28 that holds: everything about fetch_hrv, and create_adapter
\* when the configuration of the source is an object, a list or a string
AdaptersNeverRaiseOnContainers ==
    adapter_call # None =>
       /\ FetchFailuresAreNone(Val(adapter_call))
       /\ Val(adapter_call).config.type \in {"dict", "list", "str"}
             => CreateReturnsAdapter(Val(adapter_call))

\* a provider adapter built without an access token has returned None
\* without an outbound call
FetchWithoutTokenSeen ==
    /\ adapter_call # None
    /\ Val(adapter_call).op = "fetch"
    /\ Val(Val(adapter_call).adapter).cls = "Fitbit"
    /\ Val(adapter_call).config = [type |-> "dict", keys |-> {}, token |-> FALSE]
    /\ Val(adapter_call).ret = None
    /\ Val(adapter_call).calls = 0

-----------------------------------------------------------------------------
(* SpecCounter: one NotificationCounter (notification_counter.py) whose    *)
(* add_notification and get_notification_count are called by concurrent    *)
(* threads while time passes                                               *)

NotificationTypes == {"app", "system"}

\* clock steps (seconds): one second, or the whole window
CounterTickSteps == {1, WINDOW_DURATION}

\* a thread outside any call
CallIdle == [op |-> "idle", pc |-> "idle", current_time |-> 0, ret |-> None,
             cutoff |-> None]

\* NotificationCounter.__init__ with the two filter flags
NewCounter(fs, fa) ==
    [filter_system |-> fs, filter_app |-> fa,
     notification_times |-> <<>>, total_notifications |-> 0, lock |-> None,
     call |-> [t \in Threads |-> CallIdle],
     \* the add_notification calls that have returned: type and time
     log |-> <<>>,
     \* the cutoff of the latest clean_old_notifications()
     cleaned |-> None,
     n_calls |-> 0]

counter == Val(nc)

InitCounter ==
    /\ NoCollector
    /\ now = 0
    /\ ticks = 0
    /\ ctor = None
    /\ load_result = None
    /\ IoIdle
    /\ sim = SimIdle
    /\ adapter_call = None
    /\ \E fs \in BOOLEAN, fa \in BOOLEAN : nc = Some(NewCounter(fs, fa))
    /\ srv = None
    /\ InitAggregator
    /\ InitThreads
    /\ InitOrchestrator
    /\ NoScore

OnlyCounter ==
    /\ UNCHANGED <<ioVars, ctor, load_result, sim, adapter_call, srv>>
    /\ UNCHANGED <<sources, adapters, api_source, cached_hrv, cache_timestamp,
                   cache_source, cache_file, last_fetch, last_fresh>>
    /\ UNCHANGED <<aggVars, thVars, orchVars, fqsVars>>

\* time passes
TickCounter ==
    /\ ticks < MaxTicks
    /\ \E d \in CounterTickSteps : now' = now + d
    /\ ticks' = ticks + 1
    /\ UNCHANGED nc
    /\ OnlyCounter

\* add_notification, lines 104-107: the two filters
filtered(c, notification_type) ==
    \/ c.filter_system /\ notification_type = "system"
    \/ c.filter_app /\ notification_type = "app"

\* `with self.lock:` can be entered
lock_freeMut(c) == TRUE
lock_free(c) == c.lock = None

\* a thread calls add_notification(notification_type): a filtered type
\* returns at once
AddCall(t) ==
    /\ counter.call[t].pc = "idle"
    /\ counter.n_calls < MaxCounterCalls
    /\ \E ty \in NotificationTypes :
          nc' = Some(IF filtered(counter, ty)
                     THEN [counter EXCEPT
                             !.n_calls = @ + 1,
                             !.log = Append(@, [type |-> ty, time |-> now,
                                                appended |-> FALSE])]
                     ELSE [counter EXCEPT
                             !.n_calls = @ + 1,
                             !.call[t] = [CallIdle EXCEPT !.op = ty, !.pc = "enter"]])
    /\ UNCHANGED <<now, ticks>>
    /\ OnlyCounter

\* with self.lock: current_time = datetime.now()
AddEnter(t) ==
    /\ counter.call[t].pc = "enter"
    /\ counter.call[t].op \in NotificationTypes
    /\ lock_free(counter)
    /\ nc' = Some([counter EXCEPT !.lock = Some(t),
                                  !.call[t].pc = "append",
                                  !.call[t].current_time = now])
    /\ UNCHANGED <<now, ticks>>
    /\ OnlyCounter

\* self.notification_times.append(current_time); self.total_notifications
\* += 1; the lock is released and the call returns
AddAppend(t) ==
    /\ counter.call[t].pc = "append"
    /\ nc' = Some([counter EXCEPT
                     !.notification_times = Append(@, counter.call[t].current_time),
                     !.total_notifications = @ + 1,
                     !.lock = None,
                     !.log = Append(@, [type |-> counter.call[t].op,
                                        time |-> counter.call[t].current_time,
                                        appended |-> TRUE]),
                     !.call[t] = CallIdle])
    /\ UNCHANGED <<now, ticks>>
    /\ OnlyCounter

\* a thread calls get_notification_count()
GetCall(t) ==
    /\ counter.call[t].pc = "idle"
    /\ counter.n_calls < MaxCounterCalls
    /\ nc' = Some([counter EXCEPT !.n_calls = @ + 1,
                                  !.call[t] = [CallIdle EXCEPT !.op = "get", !.pc = "clean"]])
    /\ UNCHANGED <<now, ticks>>
    /\ OnlyCounter

\* clean_old_notifications, the loop: popleft() while the leftmost time is
\* before the cutoff
RECURSIVE popleft_old(_, _)
popleft_old(times, cutoff_time) ==
    IF times # <<>> /\ Head(times) < cutoff_time
    THEN popleft_old(Tail(times), cutoff_time)
    ELSE times

\* clean_old_notifications(), under the lock
GetClean(t) ==
    /\ counter.call[t].pc = "clean"
    /\ lock_free(counter)
    /\ LET cutoff_time == now - WINDOW_DURATION
       IN nc' = Some([counter EXCEPT
                        !.notification_times = popleft_old(@, cutoff_time),
                        !.cleaned = Some(cutoff_time),
                        !.call[t].pc = "len",
                        !.call[t].cutoff = Some(cutoff_time)])
    /\ UNCHANGED <<now, ticks>>
    /\ OnlyCounter

\* with self.lock: return len(self.notification_times)
GetLen(t) ==
    /\ counter.call[t].pc = "len"
    /\ lock_free(counter)
    /\ nc' = Some([counter EXCEPT
                     !.call[t].pc = "idle",
                     !.call[t].ret = Some(Len(counter.notification_times))])
    /\ UNCHANGED <<now, ticks>>
    /\ OnlyCounter

NextCounter ==
    \/ TickCounter
    \/ \E t \in Threads :
          \/ AddCall(t)
          \/ AddEnter(t)
          \/ AddAppend(t)
          \/ GetCall(t)
          \/ GetClean(t)
          \/ GetLen(t)

SpecCounter == InitCounter /\ [][NextCounter]_vars

\* the add_notification calls returned so far that the filters let through
\* and whose time is not before the cutoff
InWindow(c, cutoff_time) ==
    {i \in 1..Len(c.log) :
        /\ ~(c.filter_system /\ c.log[i].type = "system")
        /\ ~(c.filter_app /\ c.log[i].type = "app")
        /\ c.log[i].time >= cutoff_time}

\* C29: get_notification_count returns exactly the number of accepted
\* notifications whose time lies within WINDOW_DURATION: those not before the
\* cutoff of the latest clean-up, which is the call's own or that of a call
\* running beside it, and never later than WINDOW_DURATION before the
\* return; the older ones have been removed before the count, a notification
\* excluded by filter_system or filter_app is never stored, and of concurrent
\* add_notification calls none is lost or stored twice
C29_RollingWindowCount ==
    /\ [][\A t \in Threads :
            GetLen(t) =>
               /\ Val(nc').call[t].ret
                     = Some(Cardinality(InWindow(counter, Val(counter.cleaned))))
               /\ Val(counter.cleaned) >= Val(counter.call[t].cutoff)
               /\ Val(counter.cleaned) <= now - WINDOW_DURATION]_vars
    /\ [](\A t \in Threads :
            counter.call[t].pc = "len" =>
               \A i \in 1..Len(counter.notification_times) :
                  counter.notification_times[i] >= Val(counter.call[t].cutoff))
    /\ [](LET kept == SelectSeq(counter.log,
                                LAMBDA e : /\ e.appended
                                           /\ counter.cleaned # None
                                                 => e.time >= Val(counter.cleaned))
          IN counter.notification_times = [i \in 1..Len(kept) |-> kept[i].time])
    /\ [](counter.total_notifications
             = Cardinality({i \in 1..Len(counter.log) : counter.log[i].appended}))
    /\ [](\A i \in 1..Len(counter.log) :
             counter.log[i].appended
                <=> ~(\/ counter.filter_system /\ counter.log[i].type = "system"
                      \/ counter.filter_app /\ counter.log[i].type = "app"))

\* a count of one has been returned after three notifications: one was
\* filtered out, one is older than the window and one is recent
C29_Witness ==
    \E t \in Threads :
       /\ counter.call[t].op = "get"
       /\ counter.call[t].ret = Some(1)
       /\ Len(counter.log) = 3
       /\ \E i \in 1..3 : ~counter.log[i].appended
       /\ \E i \in 1..3 : /\ counter.log[i].appended
                          /\ counter.log[i].time < Val(counter.call[t].cutoff)

\* a notification exactly WINDOW_DURATION old has been counted
CountedAtWindowEdge ==
    \E t \in Threads :
       /\ counter.call[t].ret = Some(1)
       /\ \E i \in 1..Len(counter.log) :
             /\ counter.log[i].appended
             /\ counter.log[i].time = Val(counter.call[t].cutoff)

-----------------------------------------------------------------------------
(* SpecData: the backend's POST /data (main.py): requests arrive, are      *)
(* validated against FocusData, and receive_focus_data runs for the valid  *)
(* ones, interleaved with other requests at its await                      *)

Requests == 1..MaxRequests

\* a field of the JSON body: a number, a string (that spells a number or
\* not), or absent
JsonNumber(n) == [json |-> "number", num |-> Some(n)]
JsonString(n) == [json |-> "string", num |-> n]
JsonAbsent == [json |-> "absent", num |-> None]

\* the bodies posted: nominal values, values far outside the expected
\* ranges, a number given as a string, a field that is no number, a field
\* that is missing
Payloads ==
    {[hrv_rmssd |-> JsonNumber(70), notification_count |-> JsonNumber(2),
      ambient_noise |-> JsonNumber(5)],
     [hrv_rmssd |-> JsonNumber(-1000), notification_count |-> JsonNumber(1000),
      ambient_noise |-> JsonNumber(0)],
     [hrv_rmssd |-> JsonString(Some(55)), notification_count |-> JsonNumber(0),
      ambient_noise |-> JsonNumber(11)],
     [hrv_rmssd |-> JsonString(None), notification_count |-> JsonNumber(2),
      ambient_noise |-> JsonNumber(5)],
     [hrv_rmssd |-> JsonNumber(70), notification_count |-> JsonAbsent,
      ambient_noise |-> JsonNumber(5)]}

\* a `float` field of the model: the number, or the number a string spells;
\* None when the field does not validate
float_field(field) == IF field.json = "absent" THEN None ELSE field.num

\* FocusData(**body): the three floats, or None when validation fails
FocusData(body) ==
    IF \E f \in {"hrv_rmssd", "notification_count", "ambient_noise"} :
          float_field(body[f]) = None
    THEN None
    ELSE Some([f \in {"hrv_rmssd", "notification_count", "ambient_noise"} |->
                 Val(float_field(body[f]))])

data_with_timestampMut(focus_data, t) ==
    [hrv_rmssd |-> Clamp(focus_data.hrv_rmssd, SIMULATED_HRV_MIN, SIMULATED_HRV_MAX),
     notification_count |-> focus_data.notification_count,
     ambient_noise |-> focus_data.ambient_noise,
     timestamp |-> Some([iso |-> isoformat(t), suffix |-> "Z"])]

\* receive_focus_data, lines 83-88
data_with_timestamp(focus_data, t) ==
    [hrv_rmssd |-> focus_data.hrv_rmssd,
     notification_count |-> focus_data.notification_count,
     ambient_noise |-> focus_data.ambient_noise,
     timestamp |-> Some([iso |-> isoformat(t), suffix |-> "Z"])]

\* no request has been received
NoRequest == [pc |-> "none", body |-> None, focus_data |-> None, data |-> None,
              response |-> None]

server == Val(srv)

InitData ==
    /\ NoCollector
    /\ now = 0
    /\ ticks = 0
    /\ ctor = None
    /\ load_result = None
    /\ IoIdle
    /\ sim = SimIdle
    /\ adapter_call = None
    /\ nc = None
    /\ srv = Some([req |-> [r \in Requests |-> NoRequest], emitted |-> <<>>])
    /\ InitAggregator
    /\ InitThreads
    /\ InitOrchestrator
    /\ NoScore

OnlyServer ==
    /\ UNCHANGED <<ioVars, ctor, load_result, sim, adapter_call, nc>>
    /\ UNCHANGED <<fetchVars, aggVars, thVars, orchVars, fqsVars>>

\* time passes
TickData ==
    /\ ticks < MaxTicks
    /\ \E d \in TickSteps : now' = now + d
    /\ ticks' = ticks + 1
    /\ UNCHANGED <<sources, adapters, api_source, cached_hrv, cache_timestamp,
                   cache_source, cache_file, last_fetch, last_fresh>>
    /\ UNCHANGED <<ioVars, ctor, load_result, sim, adapter_call, nc, srv>>
    /\ UNCHANGED <<aggVars, thVars, orchVars, fqsVars>>

\* POST /data arrives and its body is validated against FocusData: an
\* invalid body is answered with 422 and the handler does not run
DataReceive(r) ==
    /\ server.req[r].pc = "none"
    /\ \E body \in Payloads :
          LET fd == FocusData(body)
          IN srv' = Some([server EXCEPT !.req[r] =
                 IF fd = None
                 THEN [NoRequest EXCEPT !.pc = "done", !.body = Some(body),
                                        !.response = Some([status_code |-> 422,
                                                           status |-> "error"])]
                 ELSE [NoRequest EXCEPT !.pc = "build", !.body = Some(body),
                                        !.focus_data = fd]])
    /\ OnlyServer

\* data_with_timestamp = {...}: the clock is read
DataBuild(r) ==
    /\ server.req[r].pc = "build"
    /\ srv' = Some([server EXCEPT
                      !.req[r].pc = "emit",
                      !.req[r].data = Some(data_with_timestamp(
                                              Val(server.req[r].focus_data), now))])
    /\ OnlyServer

\* await sio.emit('focus_data', data_with_timestamp, namespace='/focus_update')
DataEmit(r) ==
    /\ server.req[r].pc = "emit"
    /\ srv' = Some([server EXCEPT
                      !.req[r].pc = "respond",
                      !.emitted = Append(@, [event |-> "focus_data",
                                             data |-> Val(server.req[r].data),
                                             namespace |-> "/focus_update",
                                             to |-> None, room |-> None,
                                             request |-> r])])
    /\ OnlyServer

\* return {"status": "success", ...}: FastAPI answers 200
DataRespond(r) ==
    /\ server.req[r].pc = "respond"
    /\ srv' = Some([server EXCEPT
                      !.req[r].pc = "done",
                      !.req[r].response =
                          Some([status_code |-> 200, status |-> "success"])])
    /\ OnlyServer

NextData ==
    \/ TickData
    \/ \E r \in Requests :
          \/ DataReceive(r)
          \/ DataBuild(r)
          \/ DataEmit(r)
          \/ DataRespond(r)

SpecData == InitData /\ [][NextData]_vars

\* the emits made for the request r
EmitsOf(r) == {i \in 1..Len(server.emitted) : server.emitted[i].request = r}

\* the request r has been answered with 200
Accepted(r) ==
    /\ server.req[r].response # None
    /\ Val(server.req[r].response).status_code = 200

\* C30: every valid payload accepted by POST /data gives exactly one emit of
\* the event 'focus_data' on the namespace '/focus_update', with no room and
\* no recipient, whose data are the three values received plus a timestamp,
\* and then the 200 success response; a request that is not accepted gives
\* no emit
C30_OneBroadcastPerPayload ==
    /\ [](\A r \in Requests :
            /\ Accepted(r) =>
                  /\ Val(server.req[r].response).status = "success"
                  /\ Cardinality(EmitsOf(r)) = 1
                  /\ \A i \in EmitsOf(r) :
                        LET e == server.emitted[i]
                            body == Val(server.req[r].body)
                        IN /\ e.event = "focus_data"
                           /\ e.namespace = "/focus_update"
                           /\ e.to = None /\ e.room = None
                           /\ \A f \in {"hrv_rmssd", "notification_count", "ambient_noise"} :
                                 Some(e.data[f]) = body[f].num
                           /\ e.data.timestamp # None
                           /\ DOMAIN e.data = {"hrv_rmssd", "notification_count",
                                               "ambient_noise", "timestamp"}
            /\ Cardinality(EmitsOf(r)) <= 1
            /\ (server.req[r].response # None /\ ~Accepted(r)) => EmitsOf(r) = {})
    /\ [][\A r \in Requests :
            DataRespond(r) => (EmitsOf(r) # {} /\ Accepted(r)')]_vars

\* two requests have been accepted, one of them with values far outside the
\* expected ranges, and two events have been emitted
C30_Witness ==
    /\ \A r \in Requests : r <= 2 => Accepted(r)
    /\ \E r \in Requests : Val(server.req[r].body).hrv_rmssd = JsonNumber(-1000)
    /\ \E i \in 1..Len(server.emitted) : server.emitted[i].data.hrv_rmssd = -1000
    /\ Len(server.emitted) >= 2

\* a body that does not validate has been answered without any emit
InvalidPayloadRejected ==
    \E r \in Requests :
       /\ server.req[r].response # None
       /\ Val(server.req[r].response).status_code = 422
       /\ server.emitted = <<>>

-----------------------------------------------------------------------------
(* SpecWait: one collector loop with its sleeps and the clock: the wait    *)
(* between cycles is stop_event.wait(timeout=interval), the backoff after  *)
(* an error is time.sleep(5); run() is interrupted and stop() runs         *)

\* the default interval of each collector (seconds)
Interval(k) == IF k = "hrv" THEN 60 ELSE 5

\* clock steps (seconds)
WaitTickSteps == {1, BACKOFF_SECONDS, 60}

\* one collector enabled, either setting of graceful_degradation
WaitConfigs == {c \in Configs : Cardinality({k \in Kinds : c.enabled[k]}) = 1}

\* the collector thread is at the test of its loop, run() at the test of its
\* own
InitWait ==
    /\ sources = <<"simulated">>
    /\ adapters = <<create_adapter("simulated", FALSE)>>
    /\ api_source = "simulated"
    /\ cached_hrv = None
    /\ cache_timestamp = None
    /\ cache_source = None
    /\ cache_file = None
    /\ now = 0
    /\ ticks = 0
    /\ last_fetch = NoFetch
    /\ last_fresh = NoFresh
    /\ InitAggregator
    /\ InitThreads
    /\ config \in WaitConfigs
    /\ stop_event = FALSE
    /\ col = [k \in Kinds |-> IF config.enabled[k]
                              THEN [ColIdle EXCEPT !.pc = "check"] ELSE ColIdle]
    /\ main = [MainIdle EXCEPT !.pc = "loop", !.threads = EnabledFrom(1)]
    /\ NoScore
    /\ RestIdle

\* threading.Event.wait(timeout): over when the event is set or the timeout
\* has passed
event_wait_overMut(k) == now >= Val(wait_until[k])
event_wait_over(k) == stop_event \/ now >= Val(wait_until[k])

\* time.sleep(seconds): over when the time has passed
sleep_over(k) == now >= Val(wait_until[k])

OnlyWaiting ==
    /\ UNCHANGED <<ctor, load_result, unitVars, io>>
    /\ UNCHANGED <<fqsVars, aggVars, thVars, config, stop_event, main>>
    /\ UNCHANGED <<sources, adapters, api_source, cached_hrv, cache_timestamp,
                   cache_source, cache_file, last_fetch, last_fresh>>

\* time passes
TickWait ==
    /\ ticks < MaxTicks
    /\ \E d \in WaitTickSteps : now' = now + d
    /\ ticks' = ticks + 1
    /\ UNCHANGED <<col, wait_until>>
    /\ OnlyWaiting

\* self.stop_event.wait(timeout=collector.interval) is called
WaitArm(k) ==
    /\ col[k].pc = "wait"
    /\ wait_until[k] = None
    /\ wait_until' = [wait_until EXCEPT ![k] = Some(now + Interval(k))]
    /\ UNCHANGED <<col, now, ticks>>
    /\ OnlyWaiting

\* self.stop_event.wait(timeout=collector.interval) returns
WaitReturn(k) ==
    /\ col[k].pc = "wait"
    /\ wait_until[k] # None
    /\ event_wait_over(k)
    /\ col' = [col EXCEPT ![k].pc = "check"]
    /\ wait_until' = [wait_until EXCEPT ![k] = None]
    /\ UNCHANGED <<now, ticks>>
    /\ OnlyWaiting

\* time.sleep(5) is called in the inner handler
BackoffArm(k) ==
    /\ col[k].pc = "backoff"
    /\ wait_until[k] = None
    /\ wait_until' = [wait_until EXCEPT ![k] = Some(now + BACKOFF_SECONDS)]
    /\ UNCHANGED <<col, now, ticks>>
    /\ OnlyWaiting

\* time.sleep(5) returns
BackoffReturn(k) ==
    /\ col[k].pc = "backoff"
    /\ wait_until[k] # None
    /\ sleep_over(k)
    /\ col' = [col EXCEPT ![k].pc = "check"]
    /\ wait_until' = [wait_until EXCEPT ![k] = None]
    /\ UNCHANGED <<now, ticks>>
    /\ OnlyWaiting

\* a step of the loop of the collector k that its thread takes by itself
WaitLoopStep(k) ==
    \/ ColCheck(k)
    \/ ColAcquire(k)
    \/ ColPublish(k)
    \/ WaitArm(k)
    \/ WaitReturn(k)
    \/ BackoffArm(k)
    \/ BackoffReturn(k)

NextWait ==
    \/ TickWait
    \/ \E k \in Kinds :
          \/ ColCheck(k)
          \/ ColAcquire(k)
          \/ ColPublish(k)
          \/ WaitArm(k)
          \/ WaitReturn(k)
          \/ ColRaiseGraceful(k)
          \/ ColRaiseFatal(k)
          \/ BackoffArm(k)
          \/ BackoffReturn(k)
    \/ Interrupt
    \/ Stop
    \/ Join

SpecWait ==
    InitWait /\ [][NextWait]_vars /\ \A k \in Kinds : WF_vars(WaitLoopStep(k))

\* C31: a collector loop starts a cycle only from its test and only with the
\* stop signal clear; after the interval wait and after the error backoff it
\* goes to that test, which ends the loop when the signal is set; and a wait
\* between cycles during which the signal is set ends without the interval
\* having passed
C31_NoCycleAfterStop ==
    /\ [][\A k \in Kinds :
            /\ (col[k].pc # "acquire" /\ col'[k].pc = "acquire")
                  => (col[k].pc = "check" /\ ~stop_event)
            /\ (col[k].pc = "check" /\ col'[k].pc # "check" /\ stop_event)
                  => col'[k].pc = "done"
            /\ (col[k].pc \in {"wait", "backoff"} /\ col'[k].pc # col[k].pc)
                  => col'[k].pc = "check"]_vars
    /\ \A k \in Kinds :
          (stop_event /\ col[k].pc = "wait") ~> (col[k].pc = "done")

\* a collector loop has ended from a wait whose interval had not passed
C31_Witness ==
    \E k \in Kinds :
       /\ col[k].pc = "done"
       /\ stop_event
       /\ now < Interval(k)
       /\ agg_status[k] = "active"

-----------------------------------------------------------------------------
(* SpecIo: collector threads and the dispatching thread of run(), each     *)
(* alternating between its call that leaves the process (adapter fetch,    *)
(* audio capture, POST to the sink) and its DataAggregator call, whose     *)
(* statements and locks are those of SpecAgg                               *)

\* what a thread does: the loop of a collector, or the send loop of run()
Roles == Kinds \cup {"dispatch"}

\* the thread is between two calls / inside the outbound call, with the
\* locks it held when the call began
ThreadReady(role) == [role |-> role, phase |-> "ready", held |-> {}]

calls == Val(io)

\* the locks of the DataAggregator the thread t holds
LocksHeldBy(t) == {k \in Kinds : agg_lock[k] = Some(t)}

InitIo ==
    /\ sources = <<"simulated">>
    /\ adapters = <<create_adapter("simulated", FALSE)>>
    /\ api_source = "simulated"
    /\ cached_hrv = None
    /\ cache_timestamp = None
    /\ cache_source = None
    /\ cache_file = None
    /\ now = 0
    /\ ticks = 0
    /\ last_fetch = NoFetch
    /\ last_fresh = NoFresh
    /\ InitAggregator
    /\ InitThreads
    /\ InitOrchestrator
    /\ NoScore
    /\ ctor = None
    /\ load_result = None
    /\ sim = SimIdle
    /\ adapter_call = None
    /\ nc = None
    /\ srv = None
    /\ wait_until = [k \in Kinds |-> None]
    /\ \E roles \in [Threads -> Roles] :
          io = Some([t \in Threads |-> ThreadReady(roles[t])])

OnlyCalls ==
    /\ UNCHANGED <<ctor, load_result, unitVars, wait_until>>
    /\ UNCHANGED <<fqsVars, fetchVars, orchVars, aggVars>>

\* hrv = collector.fetch_hrv_data() / counter.get_notification_count() /
\* collector.capture_noise_sample() begins
AcquireBegin(t) ==
    /\ calls[t].role \in Kinds
    /\ calls[t].phase = "ready"
    /\ th[t].op = "idle"
    /\ io' = Some([calls EXCEPT ![t].phase = "calling", ![t].held = LocksHeldBy(t)])
    /\ UNCHANGED <<th, n_calls>>
    /\ OnlyCalls

\* the acquisition returns
AcquireEnd(t) ==
    /\ calls[t].role \in Kinds
    /\ calls[t].phase = "calling"
    /\ io' = Some([calls EXCEPT ![t].phase = "returned", ![t].held = {}])
    /\ UNCHANGED <<th, n_calls>>
    /\ OnlyCalls

\* self.aggregator.update_<kind>(value) is called with the value acquired
PublishCall(t) ==
    /\ calls[t].role \in Kinds
    /\ calls[t].phase = "returned"
    /\ th[t].op = "idle"
    /\ n_calls < MaxCalls
    /\ \E v \in Values :
          th' = [th EXCEPT ![t] = [op |-> "update", pc |-> 1, kind |-> calls[t].role,
                                   arg |-> v, res |-> <<>>]]
    /\ n_calls' = n_calls + 1
    /\ io' = Some([calls EXCEPT ![t].phase = "ready"])
    /\ OnlyCalls

\* send_aggregated_data, line 423: data = self.aggregator.get_aggregated_data()
SnapshotCall(t) ==
    /\ calls[t].role = "dispatch"
    /\ calls[t].phase = "ready"
    /\ th[t].op = "idle"
    /\ n_calls < MaxCalls
    /\ th' = [th EXCEPT ![t] = [op |-> "get_aggregated_data", pc |-> 1,
                                kind |-> "hrv", arg |-> 0, res |-> <<>>]]
    /\ n_calls' = n_calls + 1
    /\ io' = Some([calls EXCEPT ![t].phase = "snapshot"])
    /\ OnlyCalls

\* send_aggregated_data, lines 426-430: requests.post(...) begins, after
\* get_aggregated_data has returned
PostBegin(t) ==
    /\ calls[t].role = "dispatch"
    /\ calls[t].phase = "snapshot"
    /\ th[t].op = "idle"
    /\ io' = Some([calls EXCEPT ![t].phase = "calling", ![t].held = LocksHeldBy(t)])
    /\ UNCHANGED <<th, n_calls>>
    /\ OnlyCalls

\* requests.post(...) returns or raises
PostEnd(t) ==
    /\ calls[t].role = "dispatch"
    /\ calls[t].phase = "calling"
    /\ io' = Some([calls EXCEPT ![t].phase = "ready", ![t].held = {}])
    /\ UNCHANGED <<th, n_calls>>
    /\ OnlyCalls

NextIo ==
    \E t \in Threads :
       \/ AcquireBegin(t)
       \/ AcquireEnd(t)
       \/ PublishCall(t)
       \/ UpdateAcquire(t)
       \/ UpdateSetValue(t)
       \/ UpdateSetTimestamp(t)
       \/ UpdateSetStatus(t)
       \/ UpdateRelease(t)
       \/ SnapshotCall(t)
       \/ AggAcquire(t)
       \/ AggRead(t)
       \/ AggRelease(t)
       \/ AggReturn(t)
       \/ PostBegin(t)
       \/ PostEnd(t)

SpecIo == InitIo /\ [][NextIo]_vars

\* C32: while a thread's adapter fetch, audio capture or sink dispatch is in
\* progress that thread holds no lock of the DataAggregator, neither at the
\* start of the call nor later, and it is inside no DataAggregator call: a
\* collector touches the aggregate state only after its acquisition returned
C32_NoLockAcrossIo ==
    \A t \in Threads :
       calls[t].phase = "calling" =>
          /\ calls[t].held = {}
          /\ LocksHeldBy(t) = {}
          /\ th[t].op = "idle"

\* the dispatching thread is posting its snapshot while a collector thread,
\* inside update_*, holds its lock
C32_Witness ==
    \E t, u \in Threads :
       /\ calls[t].role = "dispatch"
       /\ calls[t].phase = "calling"
       /\ calls[u].role \in Kinds
       /\ th[u].op = "update"
       /\ LocksHeldBy(u) # {}

-----------------------------------------------------------------------------
(* SpecBlock: the DataAggregator called by one thread more than in         *)
(* SpecAgg, each thread making calls of update_* or get_aggregated_data,   *)
(* to see who waits for whom                                               *)

BlockThreads == 1..(NumThreads + 1)

InitBlock ==
    /\ sources = <<"simulated">>
    /\ adapters = <<create_adapter("simulated", FALSE)>>
    /\ api_source = "simulated"
    /\ cached_hrv = None
    /\ cache_timestamp = None
    /\ cache_source = None
    /\ cache_file = None
    /\ now = 0
    /\ ticks = 0
    /\ last_fetch = NoFetch
    /\ last_fresh = NoFresh
    /\ InitAggregator
    /\ th = [t \in BlockThreads |-> Idle]
    /\ n_calls = 0
    /\ InitOrchestrator
    /\ NoScore
    /\ RestIdle

\* a thread calls update_hrv / update_notifications / update_noise(value)
BlockCallUpdate(t) ==
    /\ th[t].op = "idle"
    /\ n_calls < MaxCalls + 1
    /\ \E k \in Kinds, v \in Values :
          th' = [th EXCEPT ![t] = [op |-> "update", pc |-> 1, kind |-> k,
                                   arg |-> v, res |-> <<>>]]
    /\ n_calls' = n_calls + 1
    /\ UNCHANGED <<restVars, fqsVars, fetchVars, orchVars, aggVars>>

\* a thread calls get_aggregated_data()
BlockCallGetAggregatedData(t) ==
    /\ th[t].op = "idle"
    /\ n_calls < MaxCalls + 1
    /\ th' = [th EXCEPT ![t] = [op |-> "get_aggregated_data", pc |-> 1,
                                kind |-> "hrv", arg |-> 0, res |-> <<>>]]
    /\ n_calls' = n_calls + 1
    /\ UNCHANGED <<restVars, fqsVars, fetchVars, orchVars, aggVars>>

NextBlock ==
    \E t \in BlockThreads :
       \/ BlockCallUpdate(t)
       \/ UpdateAcquire(t)
       \/ UpdateSetValue(t)
       \/ UpdateSetTimestamp(t)
       \/ UpdateSetStatus(t)
       \/ UpdateRelease(t)
       \/ BlockCallGetAggregatedData(t)
       \/ AggAcquire(t)
       \/ AggRead(t)
       \/ AggRelease(t)
       \/ AggReturn(t)

SpecBlock == InitBlock /\ [][NextBlock]_vars

\* the thread t is inside update_<k> and cannot enter its with block
UpdaterWaits(t) ==
    /\ th[t].op = "update"
    /\ th[t].pc = 1
    /\ agg_lock[th[t].kind] # None

\* the thread u is inside get_aggregated_data, has taken some of its locks
\* and cannot take the next one because an update of the kind k2 holds it
ReaderWaitsForUpdateOf(u, k2) ==
    /\ th[u].op = "get_aggregated_data"
    /\ th[u].pc <= Len(AggLocks)
    /\ AggLocks[th[u].pc] = k2
    /\ agg_lock[k2] # None
    /\ th[Val(agg_lock[k2])].op = "update"

\* C33: an updater of one kind never waits because of an update of another
\* kind: the lock it waits for is not held by an updater of another kind,
\* and not by a reader that itself waits for the lock of another kind held
\* by an update in progress
C33_KindsNeverBlockEachOther ==
    \A t \in DOMAIN th :
       UpdaterWaits(t) =>
          LET u == Val(agg_lock[th[t].kind])
          IN /\ th[u].op = "update" => th[u].kind = th[t].kind
             /\ ~\E k2 \in Kinds \ {th[t].kind} : ReaderWaitsForUpdateOf(u, k2)

\* the part of C33 that holds: an updater never waits for a lock held by an
\* updater of a different kind
UpdatersOfOtherKindsDoNotBlock ==
    \A t \in DOMAIN th :
       UpdaterWaits(t) =>
          (th[Val(agg_lock[th[t].kind])].op = "update"
              => th[Val(agg_lock[th[t].kind])].kind = th[t].kind)

\* two updates of different kinds are in progress at once, each holding its
\* own lock
UpdatesOfTwoKindsOverlap ==
    \E t, u \in DOMAIN th :
       /\ th[t].op = "update" /\ th[u].op = "update"
       /\ th[t].kind # th[u].kind
       /\ agg_lock[th[t].kind] = Some(t)
       /\ agg_lock[th[u].kind] = Some(u)

-----------------------------------------------------------------------------
(* Further properties of the DataAggregator (specification SpecAgg) *)

\* C34: the status of a kind is not_started, active or failed; once it has
\* left not_started it never returns to it; the status assignment of an
\* update makes a failed kind active again; and a kind whose status is active
\* has a last_update, in every state between the statements of concurrent
\* calls too
C34_StatusLifecycle ==
    /\ [](\A k \in Kinds :
            /\ agg_status[k] \in {"not_started", "active", "failed"}
            /\ agg_status[k] = "active" => agg_timestamp[k] # None)
    /\ [][\A k \in Kinds :
            /\ agg_status[k] # "not_started" => agg_status'[k] # "not_started"
            /\ agg_status'[k] # agg_status[k] =>
                  <<agg_status[k], agg_status'[k]>> \in
                     {<<"not_started", "active">>, <<"not_started", "failed">>,
                      <<"active", "failed">>, <<"failed", "active">>}]_vars
    /\ [][\A t \in Threads :
            UpdateSetStatus(t) => agg_status'[th[t].kind] = "active"]_vars

\* the second call of a behaviour, an update, has made its kind active and
\* given it a last_update and is still inside its with block; the other
\* kinds have not started
C34_Witness ==
    \E t \in Threads :
       /\ th[t].op = "update" /\ th[t].pc = 5
       /\ n_calls = 2
       /\ \A u \in Threads \ {t} : th[u].op = "idle"
       /\ agg_status[th[t].kind] = "active"
       /\ agg_timestamp[th[t].kind] # None
       /\ \A k \in Kinds \ {th[t].kind} :
             agg_status[k] = "not_started" /\ agg_timestamp[k] = None

-----------------------------------------------------------------------------
(* Further properties of run() and its collector threads (specification    *)
(* Spec)                                                                   *)

\* C35: in each cycle of the send loop the three values sent to the sink are
\* the three values logged in that cycle
C35_LoggedIsSent ==
    [][MainSend => main'.sent = main.logged]_vars

\* what holds instead: the values logged are those of the aggregate state
\* when run() reads it, the values sent those of the aggregate state when
\* send_aggregated_data reads it again
LoggedAndSentAreSnapshots ==
    [][/\ MainSnapshot => main'.logged = Some([k \in Kinds |-> agg_value[k]])
       /\ MainSend => main'.sent = Some([k \in Kinds |-> agg_value[k]])]_vars

-----------------------------------------------------------------------------
(* Alignment of self.adapters with self.sources (specification SpecBuild) *)

\* adapters[i] is the adapter created for sources[i], and api_source names
\* the source of the primary adapter
AdaptersAligned ==
    /\ Len(adapters) = Len(sources)
    /\ \A i \in 1..Len(adapters) : adapters[i].cls = AdapterRegistry(sources[i])
    /\ adapters # <<>> /\ AdapterRegistry(api_source) = adapters[1].cls

\* every source name the constructor ends with is one an adapter exists for
AllSourcesKnown ==
    \A i \in 1..Len(sources) : AdapterRegistry(sources[i]) # "ValueError"

\* C36: after HRVCollector construction adapters and sources have the same
\* length, adapters[i] is the adapter created for sources[i] for every i, and
\* api_source names the source of the primary adapter, also when some
\* configured source names are unknown and skipped
C36_AdaptersAligned ==
    (IsSome(ctor) /\ ~Val(ctor).raised) => AdaptersAligned

\* the part of C36 the constructor keeps: the lists are aligned when no
\* unknown name is left in self.sources
AlignedWhenAllKnown ==
    (IsSome(ctor) /\ ~Val(ctor).raised /\ AllSourcesKnown) => AdaptersAligned

-----------------------------------------------------------------------------
(* SpecAggLive: the threads of SpecAgg under a scheduler that runs every   *)
(* thread that can take a step                                             *)

\* the next statement of the call thread t is in
ThreadStep(t) ==
    \/ UpdateAcquire(t)
    \/ UpdateSetValue(t)
    \/ UpdateSetTimestamp(t)
    \/ UpdateSetStatus(t)
    \/ UpdateRelease(t)
    \/ AggAcquire(t)
    \/ AggRead(t)
    \/ AggRelease(t)
    \/ AggReturn(t)
    \/ StatusRead(t)
    \/ StatusReturn(t)

SpecAggLive == SpecAgg /\ \A t \in Threads : WF_vars(ThreadStep(t))

\* thread t is inside a DataAggregator call
InCall(t) == th[t].op # "idle"

\* thread t waits for a lock another thread holds
WaitsForLock(t) ==
    \/ th[t].op = "update" /\ th[t].pc = 1 /\ agg_lock[th[t].kind] # None
    \/ /\ th[t].op = "get_aggregated_data" /\ th[t].pc <= Len(AggLocks)
       /\ agg_lock[AggLocks[th[t].pc]] # None

\* C37: no interleaving of update_hrv, update_notifications, update_noise,
\* get_aggregated_data, get_status and mark_collector_failed calls
\* deadlocks: while calls are in progress some thread can take its next
\* step, and every call eventually acquires its locks and returns
C37_NoDeadlock ==
    /\ []((\E t \in Threads : InCall(t)) => \E t \in Threads : ENABLED ThreadStep(t))
    /\ \A t \in Threads : InCall(t) ~> ~InCall(t)

\* a reader holds hrv_lock and waits for notification_lock, which a thread
\* inside update_notifications holds
C37_Witness ==
    \E r, u \in Threads :
        /\ th[r].op = "get_aggregated_data" /\ th[r].pc = 2
        /\ agg_lock["hrv"] = Some(r)
        /\ WaitsForLock(r)
        /\ th[u].op = "update" /\ th[u].kind = "notifications"
        /\ agg_lock["notifications"] = Some(u)

-----------------------------------------------------------------------------
(* The in-memory cache after a fetch from the chain (specification         *)
(* SpecFetch)                                                              *)

\* the in-memory cache holds the value of the latest fetch, stamped with the
\* time of that fetch
MemoryHoldsFreshValue ==
    /\ cached_hrv = last_fetch.ret
    /\ cache_timestamp = last_fresh.at

\* the save_cache of the latest fetch wrote the cache file
FileWrittenByLastFetch ==
    /\ IsSome(cache_file)
    /\ Some(fromisoformat(Val(cache_file).timestamp)) = last_fresh.at

\* C38: after fetch_hrv_data obtains a new value from an adapter the
\* in-memory cache holds that value with a fresh timestamp, so that a fetch
\* within the validity window would call no adapter, also when writing the
\* cache file fails
C38_FreshValueCached ==
    last_fetch.fresh =>
        /\ MemoryHoldsFreshValue
        /\ (now - Val(last_fresh.at) < CACHE_DURATION)
              => ~should_fetch_new_data(cache_timestamp, now)

\* the part of C38 that holds: the value is cached when the file was written
FreshValueCachedWhenWritten ==
    (last_fetch.fresh /\ FileWrittenByLastFetch) =>
        /\ MemoryHoldsFreshValue
        /\ (now - Val(last_fresh.at) < CACHE_DURATION)
              => ~should_fetch_new_data(cache_timestamp, now)

-----------------------------------------------------------------------------
(* The collector threads after stop() (specification Spec) *)

\* stop() has returned
StopReturned == main.pc = "stopped"

\* the thread of collector k has not been started or has ended
ThreadEnded(k) == col[k].pc \in {"unstarted", "done"}

\* after stop() has returned no collector thread is running
NoThreadAfterStop ==
    StopReturned => \A k \in Kinds : ThreadEnded(k)

\* after stop() has returned no collector publishes into the aggregate state
NoPublishAfterStop ==
    [][StopReturned =>
          (agg_value' = agg_value /\ agg_timestamp' = agg_timestamp)]_vars

NoNewCycleAfterStop ==
    [][\A k \in Kinds : (stop_event /\ ColCheck(k)) => col'[k].pc = "done"]_vars

-----------------------------------------------------------------------------
(* An exception in a collector cycle with graceful_degradation off         *)
(* (specification Spec)                                                    *)

\* the thread of collector k is in its loop
InLoop(k) == col[k].pc \in {"check", "acquire", "publish", "wait", "backoff"}

\* a step of run()'s dispatch loop
DispatchStep == MainCheck \/ MainSnapshot \/ MainSend \/ MainWait

\* the collector k has ended on an exception
EndedOnException(k) ==
    ~config.graceful /\ col[k].pc = "done" /\ agg_status[k] = "failed"

\* C40: with graceful_degradation disabled an exception in one collector
\* cycle ends only that collector's thread and marks only that signal failed,
\* its value unchanged; the other collector loops and the dispatch loop are
\* left as they are and can take their next step
C40_FatalEndsOneCollector ==
    /\ [][\A k \in Kinds : ColRaiseFatal(k) =>
             /\ col'[k].pc = "done"
             /\ agg_status'[k] = "failed"
             /\ agg_value' = agg_value
             /\ agg_timestamp' = agg_timestamp
             /\ \A j \in Kinds \ {k} :
                   col'[j] = col[j] /\ agg_status'[j] = agg_status[j]
             /\ main' = main
             /\ stop_event' = stop_event]_vars
    /\ []((\E k \in Kinds : EndedOnException(k)) =>
             /\ \A j \in Kinds : InLoop(j) => ENABLED CollectorStep(j)
             /\ main.pc \in {"loop", "snapshot", "send", "wait"} => ENABLED DispatchStep)

\* the noise collector has ended on an exception after it had published 1,
\* which the aggregate still holds; the hrv collector is in a later cycle and
\* run() has dispatched a snapshot holding both values
C40_Witness ==
    /\ EndedOnException("noise")
    /\ agg_value["noise"] = 1 /\ IsSome(agg_timestamp["noise"])
    /\ agg_status["hrv"] = "active" /\ col["hrv"].pc = "acquire"
    /\ ~stop_event
    /\ IsSome(main.sent) /\ Val(main.sent)["noise"] = 1

====
